---- MODULE Spec2Model ----
(***************************************************************************)
(* StarClickerBot: the optimistic balance synchronisation of MainScreen.   *)
(*                                                                         *)
(* The model follows the evolved revision of the MainScreen component      *)
(* (guarded sync listener, 300 ms debounce, single retry, visibility       *)
(* flush).  React state, refs, the browser's timer table, the reactive     *)
(* document store and the subscription stream are the state; every event   *)
(* handler, timer callback and promise continuation is one action.         *)
(***************************************************************************)
EXTENDS Integers, Sequences, FiniteSets, TLC

\* ------------------------------------------------------------------ bounds
MaxMutations == 2   \* taps and income ticks applied in one exploration
MaxForce == 1       \* forced flushes issued in one exploration
MaxUnload == 1      \* beforeunload events that find the slot occupied
MaxCreations == 2   \* createNewUser calls in one exploration
MaxRedeliver == 1   \* snapshots the subscription hands over a second time
MaxPurchases == 2   \* purchase handler calls in one exploration
MaxEquips == 1      \* equip handler calls in one exploration
MaxGlobalTicks == 1 \* ticks of App's global income timer in one exploration
MaxOrderMutations == 3   \* taps and income ticks where the order of the
                         \* writes is explored

\* --------------------------------------------------------------- constants
Missing == -1       \* a remote field that is absent or not numeric
Null == [null |-> TRUE]   \* pendingUpdatesRef.current === null
NoTimer == 0        \* a timer ref holding null
NoSkins == {"undefined"}   \* a profile whose ownedSkins field is absent

VARIABLES
  userId,             \* prop of MainScreen ("" while no user is known)
  balance,            \* useState: local balance
  totalClicks,        \* useState: local tap counter
  clickPower,         \* useState: upgrade level
  multiplierLevel,    \* useState: upgrade level
  autoClickerLevel,   \* useState: upgrade level
  currentSkin,        \* useState: equipped skin
  ownedSkins,         \* useState: owned skins (the revision with inline skins)
  pendingUpdatesRef,  \* useRef: Null or [balance, clicks]
  updateTimerRef,     \* useRef: id of the last debounce timeout, or NoTimer
  autoClickerRef,     \* useRef: id of the last income interval, or NoTimer
  timeouts,           \* browser: pending setTimeout entries [id, kind]
  intervals,          \* browser: active setInterval entries [id, rate, clicks]
  documentHidden,     \* browser: document.hidden
  remote,             \* store: the user's profile record
  inflight,           \* store: transactions issued and not yet resolved, oldest
                      \* first, each [kind, payload]
  issued,             \* history: number of transactions issued so far
  lastWrite,          \* history: the transaction issued last, or Null
  forced,             \* history: forced flushes issued so far
  inbox,              \* subscription: TRUE while useQuery has a change of the
                      \* record it has not yet delivered to the component
  lastNotified,       \* history: last snapshot handed to scheduleUpdate
  mutations,          \* history: scheduleUpdate calls so far
  failures,           \* history: transactions that rejected
  flushFailures,      \* history: debounce-expiry persists that rejected
  retriesScheduled,   \* history: retry timeouts ever started
  redeliveries,       \* history: snapshots handed over a second time
  currentScreen,      \* App useState: the screen that is mounted
  upgradesScreen,     \* UpgradesScreen useState: [balance, clickPower,
                      \* multiplierLevel, autoClickerLevel]
  skinsScreen,        \* SkinsScreen useState: [balance, currentSkin, ownedSkins]
  purchases,          \* history: calls of a purchase handler so far
  lastPurchase,       \* history: the last call's [cost, balance, issued], or
                      \* Null
  equips,             \* history: calls of an equip handler so far
  app,                \* App (the revision with the global auto-clicker):
                      \* [currentUserData, autoClickerLevel, autoClickerRef,
                      \* intervals, ticks]
  beacons,            \* browser: the bodies handed to navigator.sendBeacon,
                      \* oldest first
  signup              \* App's initialization and the store's side of it

vars == <<userId, balance, totalClicks, clickPower, multiplierLevel,
          autoClickerLevel, currentSkin, ownedSkins, pendingUpdatesRef, updateTimerRef,
          autoClickerRef, timeouts, intervals, documentHidden, remote,
          inflight, issued, lastWrite, forced, inbox, lastNotified, mutations,
          failures, flushFailures, retriesScheduled, redeliveries,
          currentScreen, upgradesScreen, skinsScreen, purchases,
          lastPurchase, equips, app, beacons, signup>>

\* the state of App and of the screens other than MainScreen
shopVars == <<currentScreen, upgradesScreen, skinsScreen, purchases,
              lastPurchase>>

\* what no handler, timer callback or continuation of the tap screen writes
otherVars == <<redeliveries, shopVars, equips, app, beacons, signup>>

localVars == <<balance, totalClicks, clickPower, multiplierLevel,
               autoClickerLevel, currentSkin, ownedSkins>>
historyVars == <<lastNotified, mutations, failures, flushFailures,
                 retriesScheduled>>
writeVars == <<inflight, issued, lastWrite>>

\* ------------------------------------------------------- pure functions
\* Number(x) || 0
Num(x) == IF x = Missing THEN 0 ELSE x

\* user.currentSkin || 'default'
SkinOrDefault(skin) == IF skin = "" THEN "default" ELSE skin

\* user.ownedSkins || ['default']
OwnedOrDefault(owned) == IF owned = NoSkins THEN {"default"} ELSE owned

\* UPGRADES.multiplier.effect(level) = 1 + level * 0.1, kept in tenths
MultiplierEffectTenths(level) == 10 + level

\* The effect is a double: 1 + level * 0.1 is rounded twice, and the double it
\* yields differs from (10 + level) / 10 by MultiplierEffectError[level + 1]
\* / (10 * 2^52).  Levels 0..20, the multiplier's range.
MultiplierEffectError ==
  << 0, 4, -2, 2, -4, 0, 4, 8, 2, -4, 0, 4, 8, -8, 16, 0, 4, 8, -8, 16, 0 >>

RECURSIVE Log2Floor(_)
\* the exponent of the double n, n >= 1
Log2Floor(n) == IF n < 2 THEN 0 ELSE 1 + Log2Floor(n \div 2)

\* baseValue * multiplier, a double again: the exact product is the integer
\* exact plus baseValue * MultiplierEffectError / (10 * 2^52), and it rounds
\* to the double below exact when it lies more than half a spacing under it.
\* Under exact the doubles are 2^(E-52) apart, 2^(E-53) when exact = 2^E.
ProductRoundsBelow(baseValue, ml, exact) ==
  LET err == MultiplierEffectError[ml + 1]
      E == Log2Floor(exact)
      short == IF exact = 2 ^ E THEN 2 * baseValue * (0 - err)
               ELSE baseValue * (0 - err)
  IN err < 0 /\ short > 5 * 2 ^ E

\* calculateClickValue: Math.floor((1 + clickPower) * multiplier).  The floor
\* of the rounded product is the floor of the exact one unless the exact
\* product is an integer and the rounded one falls below it.
calculateClickValue(cp, ml) ==
  LET baseValue == 1 + cp
      tenths == baseValue * MultiplierEffectTenths(ml)
      exact == tenths \div 10
  IN IF tenths % 10 = 0 /\ ProductRoundsBelow(baseValue, ml, exact)
     THEN exact - 1
     ELSE exact

\* a rate of one star per second whatever the level
calculateAutoClickerRateFlat(level) == 1

\* calculateAutoClickerRate: UPGRADES.autoClicker.effect(level) = level
calculateAutoClickerRate(level) == level

\* ------------------------------------------------------- timer table
UsedIds == {t.id : t \in timeouts} \cup {i.id : i \in intervals}
             \cup {updateTimerRef, autoClickerRef}

\* setTimeout / setInterval return an id no live timer or ref still holds
FreshId(used) ==
  CHOOSE n \in 1..(Cardinality(used) + 1) : n \notin used

\* clearTimeout(ref): removes the entry if it is still pending
ClearTimeout(ts, ref) == {t \in ts : t.id # ref}

\* clearInterval(ref)
ClearInterval(is, ref) == {i \in is : i.id # ref}


\* ------------------------------------------------------- the store
Snapshot(b, c) == [balance |-> b, clicks |-> c]

\* db.tx.users[userId].update({balance, totalClicks}) applied to the profile
ApplyUpdate(profile, payload) ==
  [profile EXCEPT !.balance = payload.balance, !.totalClicks = payload.clicks]

\* db.transact([...]): the transaction is issued and its promise is pending
IssueWrite(kind, payload) ==
  /\ inflight' = Append(inflight, [kind |-> kind, payload |-> payload])
  /\ issued' = issued + 1
  /\ lastWrite' = [kind |-> kind, payload |-> payload]

\* The session's transactions travel over one ordered connection: the oldest
\* unresolved transaction resolves (or rejects) first.
Oldest == Head(inflight)

\* The store commits a transaction; the subscription will deliver the changed
\* record (changes not yet delivered are delivered together, as the latest).
Commit(payload) ==
  /\ remote' = ApplyUpdate(remote, payload)
  /\ inbox' = TRUE

\* ------------------------------------------------------- derived notions
UpdateTimers == {t \in timeouts : t.kind = "update"}
RetryTimers == {t \in timeouts : t.kind = "retry"}

\* the remote profile carries exactly this snapshot
RemoteMatches(snap) ==
  /\ remote.balance = snap.balance
  /\ remote.totalClicks = snap.clicks

\* an inbound snapshot is handled in this step
InboundHandled == inbox /\ ~inbox'

\* ------------------------------------------------------- scheduleUpdate
\* scheduleUpdate without its clearTimeout: the timers stack
ScheduleUpdateStacked(ts, ref, id) == ts \cup {[id |-> id, kind |-> "update"]}

\* lines 111-116: clear the existing debounce timer, start a fresh one
ScheduleUpdateTimeouts(ts, ref, id) ==
  ClearTimeout(ts, ref) \cup {[id |-> id, kind |-> "update"]}

\* scheduleUpdate(newBalance, newClicks), up to the setTimeout call
ScheduleUpdate(newBalance, newClicks) ==
  LET tid == FreshId(UsedIds) IN
  /\ pendingUpdatesRef' = Snapshot(newBalance, newClicks)
  /\ timeouts' = ScheduleUpdateTimeouts(timeouts, updateTimerRef, tid)
  /\ updateTimerRef' = tid
  /\ lastNotified' = Snapshot(newBalance, newClicks)
  /\ mutations' = mutations + 1

\* ------------------------------------------------------- auto-clicker effect
\* the effect without the cleanup it returns: only the body's own
\* clearInterval, taken when the new level is > 0, stops a timer
AutoClickerEffectNoCleanup(oldLevel, oldClicks, newLevel, newClicks, is, ref, used) ==
  IF oldLevel = newLevel /\ oldClicks = newClicks
  THEN [intervals |-> is, ref |-> ref]
  ELSE LET id == FreshId(used)
       IN IF newLevel > 0
          THEN [intervals |-> ClearInterval(is, ref) \cup
                   {[id |-> id, rate |-> calculateAutoClickerRate(newLevel),
                     clicks |-> newClicks]},
                ref |-> id]
          ELSE [intervals |-> is, ref |-> ref]

\* useEffect(..., [autoClickerLevel, totalClicks]): when a dependency changed,
\* the previous run's cleanup (returned only when its level was > 0) clears the
\* interval, then the body starts a new one when the new level is > 0.
AutoClickerEffect(oldLevel, oldClicks, newLevel, newClicks, is, ref, used) ==
  IF oldLevel = newLevel /\ oldClicks = newClicks
  THEN [intervals |-> is, ref |-> ref]
  ELSE LET cleaned == IF oldLevel > 0 THEN ClearInterval(is, ref) ELSE is
           id == FreshId(used)
       IN IF newLevel > 0
          THEN [intervals |-> ClearInterval(cleaned, ref) \cup
                   {[id |-> id, rate |-> calculateAutoClickerRate(newLevel),
                     clicks |-> newClicks]},
                ref |-> id]
          ELSE [intervals |-> cleaned, ref |-> ref]

\* the effect with the dependency array [autoClickerLevel]: a change of
\* totalClicks alone does not re-run it, and the interval keeps the tap count
\* of the render that started it
RunEffectsLevelOnly(newLevel, newClicks) ==
  LET used == {t.id : t \in timeouts'} \cup {i.id : i \in intervals}
                \cup {updateTimerRef', autoClickerRef}
      eff == AutoClickerEffect(autoClickerLevel, totalClicks, newLevel,
                               totalClicks, intervals, autoClickerRef, used)
  IN /\ intervals' = eff.intervals
     /\ autoClickerRef' = eff.ref

\* The render that follows a handler: effects whose dependencies changed re-run.
\* Reads timeouts' and updateTimerRef', which the handler has already set.
RunEffects(newLevel, newClicks) ==
  LET used == {t.id : t \in timeouts'} \cup {i.id : i \in intervals}
                \cup {updateTimerRef', autoClickerRef}
      eff == AutoClickerEffect(autoClickerLevel, totalClicks, newLevel,
                               newClicks, intervals, autoClickerRef, used)
  IN /\ intervals' = eff.intervals
     /\ autoClickerRef' = eff.ref

\* ------------------------------------------------------- actions
\* a handler that takes the tap of a session without a user
TapRefusedNever == FALSE

\* line 191: if (!userId) return
TapRefused == userId = ""

\* handleStarClick, explored while fewer than limit mutations were applied
TapWithin(limit) ==
  IF TapRefused
  THEN UNCHANGED vars
  ELSE LET clickValue == calculateClickValue(clickPower, multiplierLevel)
           newBalance == balance + clickValue
           newTotalClicks == totalClicks + 1
       IN /\ mutations < limit
          /\ balance' = newBalance
          /\ totalClicks' = newTotalClicks
          /\ ScheduleUpdate(newBalance, newTotalClicks)
          /\ RunEffects(autoClickerLevel, newTotalClicks)
          /\ UNCHANGED <<otherVars, userId, clickPower, multiplierLevel,
                         autoClickerLevel, currentSkin, ownedSkins,
                         documentHidden, remote, writeVars,
                         forced, inbox, failures, flushFailures,
                         retriesScheduled>>

\* handleStarClick
Tap == TapWithin(MaxMutations)

\* the setInterval callback of the auto-clicker effect, explored while fewer
\* than limit mutations were applied
IncomeTickWithin(limit) ==
  \E iv \in intervals :
    LET newBalance == balance + iv.rate IN
    /\ mutations < limit
    /\ balance' = newBalance
    /\ ScheduleUpdate(newBalance, iv.clicks)
    /\ UNCHANGED <<otherVars, userId, totalClicks, clickPower, multiplierLevel,
                   autoClickerLevel, currentSkin, ownedSkins, autoClickerRef,
                   intervals,
                   documentHidden, remote, writeVars, forced, inbox,
                   failures, flushFailures, retriesScheduled>>

\* the setInterval callback of the auto-clicker effect
IncomeTick == IncomeTickWithin(MaxMutations)

\* the listener without its guard: every snapshot overwrites the two fields
ListenerAlwaysOverwrites == TRUE

\* the guard of line 62 stuck closed: the two fields are never taken over
ListenerNeverOverwrites == FALSE

\* line 62: the sync listener overwrites balance and totalClicks only then
ListenerMayOverwrite == pendingUpdatesRef = Null

\* a listener that adds the inbound balance to the local one
MergedBalanceAdded(current, user) == current + Num(user.balance)

\* lines 62-65: setBalance(Number(user.balance) || 0) behind the guard
MergedBalance(current, user) ==
  IF ListenerMayOverwrite THEN Num(user.balance) ELSE current

\* lines 62-66: setTotalClicks(Number(user.totalClicks) || 0) behind the guard
MergedTotalClicks(current, user) ==
  IF ListenerMayOverwrite THEN Num(user.totalClicks) ELSE current

\* the upgrade levels put behind the guard of the balance
MergedLevelGuarded(current, inbound) ==
  IF pendingUpdatesRef = Null THEN Num(inbound) ELSE current

\* lines 68-71: setClickPower(Number(user.clickPower) || 0) and its likes,
\* outside the guard
MergedLevel(current, inbound) == Num(inbound)

\* a listener that takes the inbound snapshot for the echo of the pending
\* write and empties the slot
SlotAfterInboundCleared == Null

\* lines 56-74: the listener reads pendingUpdatesRef.current and assigns
\* neither it nor updateTimerRef
SlotAfterInbound == pendingUpdatesRef

\* useEffect(..., [data]): the sync listener, run on an inbound snapshot; the
\* owned skins are those of the revision that keeps the skins inline
InboundSnapshot ==
  /\ inbox
  /\ LET user == remote IN
     /\ inbox' = FALSE
     /\ balance' = MergedBalance(balance, user)
     /\ totalClicks' = MergedTotalClicks(totalClicks, user)
     /\ clickPower' = MergedLevel(clickPower, user.clickPower)
     /\ multiplierLevel' = MergedLevel(multiplierLevel, user.multiplierLevel)
     /\ autoClickerLevel' = MergedLevel(autoClickerLevel,
                                        user.autoClickerLevel)
     /\ currentSkin' = SkinOrDefault(user.currentSkin)
     /\ ownedSkins' = OwnedOrDefault(user.ownedSkins)
     /\ pendingUpdatesRef' = SlotAfterInbound
     /\ UNCHANGED <<timeouts, updateTimerRef>>
     /\ RunEffects(autoClickerLevel', totalClicks')
  /\ UNCHANGED <<otherVars, userId, documentHidden, remote, writeVars,
                 forced, historyVars>>

\* db.useQuery hands the component a new data object whose record carries the
\* same values as the one before (the store notifies on every change of the
\* query's result, also one that leaves these fields alone)
Redeliver ==
  /\ userId # ""
  /\ ~inbox
  /\ redeliveries < MaxRedeliver
  /\ inbox' = TRUE
  /\ redeliveries' = redeliveries + 1
  /\ UNCHANGED <<shopVars, equips, app, beacons, signup, userId, localVars,
                 pendingUpdatesRef, updateTimerRef, autoClickerRef, timeouts,
                 intervals, documentHidden, remote, writeVars, forced,
                 historyVars>>

\* the debounce timeout's callback, up to the await
DebounceExpiry ==
  \E t \in timeouts :
    /\ t.kind = "update"
    /\ timeouts' = timeouts \ {t}
    /\ IF pendingUpdatesRef # Null /\ userId # ""
       THEN IssueWrite("flush", pendingUpdatesRef)
       ELSE UNCHANGED writeVars
    /\ UNCHANGED <<otherVars, userId, localVars, pendingUpdatesRef, updateTimerRef,
                   autoClickerRef, intervals, documentHidden, remote, forced,
                   inbox, historyVars>>

\* line 126: the continuation after the awaited transact resolved
SlotAfterFlushSuccess == Null

FlushResolved ==
  /\ inflight # <<>>
  /\ Oldest.kind = "flush"
  /\ inflight' = Tail(inflight)
  /\ Commit(Oldest.payload)
  /\ pendingUpdatesRef' = SlotAfterFlushSuccess
  /\ UNCHANGED <<otherVars, userId, localVars, updateTimerRef, autoClickerRef, timeouts,
                 intervals, documentHidden, issued, lastWrite, forced,
                 historyVars>>

\* lines 127-139: the catch block starts the retry timeout
FlushCatchTimeouts(ts, id) == ts \cup {[id |-> id, kind |-> "retry"]}

FlushRejected ==
  /\ inflight # <<>>
  /\ Oldest.kind = "flush"
  /\ inflight' = Tail(inflight)
  /\ timeouts' = FlushCatchTimeouts(timeouts, FreshId(UsedIds))
  /\ failures' = failures + 1
  /\ flushFailures' = flushFailures + 1
  /\ retriesScheduled' = retriesScheduled + Cardinality(timeouts' \ timeouts)
  /\ UNCHANGED <<otherVars, userId, localVars, pendingUpdatesRef, updateTimerRef,
                 autoClickerRef, intervals, documentHidden, remote, issued,
                 lastWrite, forced, inbox, lastNotified, mutations>>

\* a retry that does not look at the slot
RetryDueAlways == TRUE

\* line 131: if (pendingUpdatesRef.current)
RetryDue == pendingUpdatesRef # Null

\* lines 130-139: the retry timeout's callback
RetryExpiry ==
  \E t \in timeouts :
    /\ t.kind = "retry"
    /\ timeouts' = timeouts \ {t}
    /\ IF RetryDue
       THEN IssueWrite("retry", pendingUpdatesRef)
       ELSE UNCHANGED writeVars
    /\ UNCHANGED <<otherVars, userId, localVars, pendingUpdatesRef, updateTimerRef,
                   autoClickerRef, intervals, documentHidden, remote, forced,
                   inbox, historyVars>>

\* lines 132-137 and 150-155: these promises have no then-continuation
SlotAfterUnawaitedSuccess == pendingUpdatesRef

\* the retry's or the forced flush's transact resolved
UnawaitedResolved ==
  /\ inflight # <<>>
  /\ Oldest.kind \in {"retry", "force"}
  /\ inflight' = Tail(inflight)
  /\ Commit(Oldest.payload)
  /\ pendingUpdatesRef' = SlotAfterUnawaitedSuccess
  /\ UNCHANGED <<otherVars, userId, localVars, updateTimerRef, autoClickerRef, timeouts,
                 intervals, documentHidden, issued, lastWrite, forced,
                 historyVars>>

\* a catch that retries again: a retry chain
UnawaitedCatchRetries(ts, id) == ts \cup {[id |-> id, kind |-> "retry"]}

\* lines 137 and 155: .catch(err => console.error(...)) only logs
UnawaitedCatchTimeouts(ts, id) == ts

\* the retry's or the forced flush's transact rejected
UnawaitedRejected ==
  /\ inflight # <<>>
  /\ Oldest.kind \in {"retry", "force"}
  /\ inflight' = Tail(inflight)
  /\ timeouts' = UnawaitedCatchTimeouts(timeouts, FreshId(UsedIds))
  /\ failures' = failures + 1
  /\ retriesScheduled' = retriesScheduled + Cardinality(timeouts' \ timeouts)
  /\ UNCHANGED <<otherVars, userId, localVars, pendingUpdatesRef, updateTimerRef,
                 autoClickerRef, intervals, documentHidden, remote, issued,
                 lastWrite, forced, inbox, lastNotified, mutations,
                 flushFailures>>

\* lines 150-155: what the forced flush sends
ForceFlushPayload == pendingUpdatesRef

\* the test of line 148 inverted: flushes when the tab becomes visible
ForceFlushDueWhenVisible ==
  ~documentHidden' /\ pendingUpdatesRef # Null /\ userId # ""

\* line 148: document.hidden && pendingUpdatesRef.current && userId, evaluated
\* by the handler after the document's visibility has changed
ForceFlushDue == documentHidden' /\ pendingUpdatesRef # Null /\ userId # ""

\* handleVisibilityChange, on the document's visibilitychange event
VisibilityChange ==
  /\ documentHidden' = ~documentHidden
  /\ IF ForceFlushDue
     THEN /\ forced < MaxForce
          /\ forced' = forced + 1
          /\ IssueWrite("force", ForceFlushPayload)
     ELSE UNCHANGED <<writeVars, forced>>
  /\ UNCHANGED <<otherVars, userId, localVars, pendingUpdatesRef, updateTimerRef,
                 autoClickerRef, timeouts, intervals, remote, inbox,
                 historyVars>>

\* a test that leaves the slot out
BeaconDueWithoutSlot == userId # ""

\* line 160: pendingUpdatesRef.current && userId
BeaconDue == pendingUpdatesRef # Null /\ userId # ""

\* a body that leaves the tap count out
BeaconBodyBalanceOnly == [balance |-> pendingUpdatesRef.balance]

\* line 162: JSON.stringify(pendingUpdatesRef.current)
BeaconBody == pendingUpdatesRef

\* handleBeforeUnload, on the window's beforeunload event: the slot's contents
\* are handed to navigator.sendBeacon (line 162; the optional call finds the
\* method in every host the app runs in), and no transact is made
BeforeUnload ==
  /\ IF BeaconDue
     THEN /\ Len(beacons) < MaxUnload
          /\ beacons' = Append(beacons, BeaconBody)
     ELSE UNCHANGED beacons
  /\ UNCHANGED <<redeliveries, shopVars, equips, app, signup, userId,
                 localVars, pendingUpdatesRef, updateTimerRef, autoClickerRef,
                 timeouts, intervals, documentHidden, remote, writeVars,
                 forced, inbox, historyVars>>

\* ------------------------------------------------------- pricing
\* UPGRADES: maxLevel, baseCost and costMultiplier (1.5, 2.0 and 1.8 as
\* fractions) of the three upgrades
UPGRADES ==
  [clickPower |-> [maxLevel |-> 50, baseCost |-> 100, num |-> 3, den |-> 2],
   multiplier |-> [maxLevel |-> 20, baseCost |-> 500, num |-> 2, den |-> 1],
   autoClicker |-> [maxLevel |-> 30, baseCost |-> 1000, num |-> 9, den |-> 5]]

\* the cost rounded up instead of down
getUpgradeCostCeiling(upgradeId, currentLevel) ==
  LET upgrade == UPGRADES[upgradeId] IN
  IF upgradeId \notin DOMAIN UPGRADES \/ currentLevel >= upgrade.maxLevel
  THEN 0
  ELSE (upgrade.baseCost * upgrade.num ^ currentLevel
          + upgrade.den ^ currentLevel - 1)
         \div (upgrade.den ^ currentLevel)

\* getUpgradeCost: 0 for an unknown upgrade and once the level has reached
\* maxLevel, else Math.floor(baseCost * Math.pow(costMultiplier, currentLevel))
getUpgradeCost(upgradeId, currentLevel) ==
  LET upgrade == UPGRADES[upgradeId] IN
  IF upgradeId \notin DOMAIN UPGRADES \/ currentLevel >= upgrade.maxLevel
  THEN 0
  ELSE (upgrade.baseCost * upgrade.num ^ currentLevel)
         \div (upgrade.den ^ currentLevel)

\* SKINS: the cost of each skin
SKINS == [default |-> 0, pumpkin |-> 10000, gold |-> 25000, rainbow |-> 50000]

\* userOwnsSkin: ownedSkins.includes(skinId)
userOwnsSkin(owned, skinId) == skinId \in owned

\* x || 0 (UpgradesScreen reads the profile without Number())
OrZero(x) == IF x = Missing THEN 0 ELSE x

\* a purchase handler was called: the call is counted and its cost, the local
\* balance it saw and whether it issued a transaction are kept
NotePurchase(cost, localBalance, accepted) ==
  /\ purchases' = purchases + 1
  /\ lastPurchase' = [cost |-> cost, balance |-> localBalance,
                      issued |-> accepted]

\* ------------------------------------------------------- UpgradesScreen
\* useEffect(..., [data]) of UpgradesScreen
UpgradesListener ==
  /\ currentScreen = "upgrades"
  /\ inbox
  /\ inbox' = FALSE
  /\ upgradesScreen' =
       [balance |-> OrZero(remote.balance),
        clickPower |-> OrZero(remote.clickPower),
        multiplierLevel |-> OrZero(remote.multiplierLevel),
        autoClickerLevel |-> OrZero(remote.autoClickerLevel)]
  /\ UNCHANGED <<userId, localVars, pendingUpdatesRef, updateTimerRef,
                 autoClickerRef, timeouts, intervals, documentHidden, remote,
                 writeVars, forced, historyVars, redeliveries, equips, app, beacons, signup, currentScreen,
                 skinsScreen, purchases, lastPurchase>>

\* getLevelForUpgrade
getLevelForUpgrade(screen, upgradeId) ==
  CASE upgradeId = "clickPower" -> screen.clickPower
    [] upgradeId = "multiplier" -> screen.multiplierLevel
    [] upgradeId = "autoClicker" -> screen.autoClickerLevel

\* lines 77-87: the profile field that carries the upgrade's level
LevelField(upgradeId) ==
  CASE upgradeId = "clickPower" -> "clickPower"
    [] upgradeId = "multiplier" -> "multiplierLevel"
    [] upgradeId = "autoClicker" -> "autoClickerLevel"

\* a handler that spends without looking at the balance
UpgradeAffordableAlways(localBalance, cost) == TRUE

\* line 51: if (balance < cost) return
UpgradeAffordable(localBalance, cost) == ~(localBalance < cost)

\* a handler that forgets the maximum
UpgradeBelowMaxAlways(currentLevel, upgrade) == TRUE

\* line 60: if (currentLevel >= upgrade.maxLevel) return
UpgradeBelowMax(currentLevel, upgrade) == ~(currentLevel >= upgrade.maxLevel)

\* UpgradesScreen.handlePurchase(upgradeId), up to the await
UpgradePurchase ==
  \E upgradeId \in DOMAIN UPGRADES :
    LET currentLevel == getLevelForUpgrade(upgradesScreen, upgradeId)
        upgrade == UPGRADES[upgradeId]
        cost == getUpgradeCost(upgradeId, currentLevel)
        accepted == /\ UpgradeAffordable(upgradesScreen.balance, cost)
                    /\ UpgradeBelowMax(currentLevel, upgrade)
        newBalance == upgradesScreen.balance - cost
        newLevel == currentLevel + 1
    IN /\ currentScreen = "upgrades"
       /\ purchases < MaxPurchases
       /\ NotePurchase(cost, upgradesScreen.balance, accepted)
       /\ IF accepted
          THEN IssueWrite("upgrade", [balance |-> newBalance,
                                      field |-> LevelField(upgradeId),
                                      level |-> newLevel])
          ELSE UNCHANGED writeVars
       /\ UNCHANGED <<userId, localVars, pendingUpdatesRef, updateTimerRef,
                      autoClickerRef, timeouts, intervals, documentHidden,
                      remote, forced, inbox, historyVars, redeliveries, equips, app, beacons, signup,
                      currentScreen, upgradesScreen, skinsScreen>>

\* db.tx.users[userId].update(updates) applied to the profile
ApplyUpgrade(profile, payload) ==
  [profile EXCEPT !.balance = payload.balance,
                  ![payload.field] = payload.level]

\* lines 91-109: the transact of an upgrade purchase resolved; the screen
\* sets no state of its own and waits for the subscription
UpgradeResolved ==
  /\ inflight # <<>>
  /\ Oldest.kind = "upgrade"
  /\ inflight' = Tail(inflight)
  /\ remote' = ApplyUpgrade(remote, Oldest.payload)
  /\ inbox' = TRUE
  /\ UNCHANGED <<userId, localVars, pendingUpdatesRef, updateTimerRef,
                 autoClickerRef, timeouts, intervals, documentHidden, issued,
                 lastWrite, forced, historyVars, redeliveries, equips, app, beacons, signup, shopVars>>

\* lines 111-118: the transact of an upgrade purchase rejected
UpgradeRejected ==
  /\ inflight # <<>>
  /\ Oldest.kind = "upgrade"
  /\ inflight' = Tail(inflight)
  /\ failures' = failures + 1
  /\ UNCHANGED <<userId, localVars, pendingUpdatesRef, updateTimerRef,
                 autoClickerRef, timeouts, intervals, documentHidden, remote,
                 issued, lastWrite, forced, inbox, lastNotified, mutations,
                 flushFailures, retriesScheduled, redeliveries, equips, app, beacons, signup, shopVars>>

\* ------------------------------------------------------- SkinsScreen
\* useEffect(..., [data]) of SkinsScreen
SkinsListener ==
  /\ currentScreen = "skins"
  /\ inbox
  /\ inbox' = FALSE
  /\ skinsScreen' = [balance |-> Num(remote.balance),
                     currentSkin |-> SkinOrDefault(remote.currentSkin),
                     ownedSkins |-> OwnedOrDefault(remote.ownedSkins)]
  /\ UNCHANGED <<userId, localVars, pendingUpdatesRef, updateTimerRef,
                 autoClickerRef, timeouts, intervals, documentHidden, remote,
                 writeVars, forced, historyVars, redeliveries, equips, app, beacons, signup, currentScreen,
                 upgradesScreen, purchases, lastPurchase>>

\* a handler that spends without looking at the balance
SkinAffordableAlways(localBalance, cost) == TRUE

\* if (balance < skin.cost) return: SkinsScreen line 54, and line 240 of the
\* tap screen with inline skins
SkinAffordable(localBalance, cost) == ~(localBalance < cost)

\* the update of a skin purchase: balance, ownedSkins and currentSkin
SkinUpdate(localBalance, owned, skinId) ==
  [balance |-> localBalance - SKINS[skinId],
   ownedSkins |-> owned \cup {skinId},
   currentSkin |-> skinId]

\* db.tx.users[userId].update({balance, ownedSkins, currentSkin}) applied
ApplySkin(profile, payload) ==
  [profile EXCEPT !.balance = payload.balance,
                  !.ownedSkins = payload.ownedSkins,
                  !.currentSkin = payload.currentSkin]

\* SkinsScreen.handlePurchase(skinId), up to the await
SkinPurchase ==
  \E skinId \in DOMAIN SKINS :
    LET cost == SKINS[skinId]
        accepted == /\ SkinAffordable(skinsScreen.balance, cost)
                    /\ ~userOwnsSkin(skinsScreen.ownedSkins, skinId)
    IN /\ currentScreen = "skins"
       /\ purchases < MaxPurchases
       /\ NotePurchase(cost, skinsScreen.balance, accepted)
       /\ IF accepted
          THEN IssueWrite("skin", SkinUpdate(skinsScreen.balance,
                                             skinsScreen.ownedSkins, skinId))
          ELSE UNCHANGED writeVars
       /\ UNCHANGED <<userId, localVars, pendingUpdatesRef, updateTimerRef,
                      autoClickerRef, timeouts, intervals, documentHidden,
                      remote, forced, inbox, historyVars, redeliveries, equips, app, beacons, signup,
                      currentScreen, upgradesScreen, skinsScreen>>

\* lines 68-89: the transact of a skin purchase resolved, then setBalance,
\* setOwnedSkins and setCurrentSkin with the values computed before the await
SkinResolved ==
  /\ inflight # <<>>
  /\ Oldest.kind = "skin"
  /\ inflight' = Tail(inflight)
  /\ remote' = ApplySkin(remote, Oldest.payload)
  /\ inbox' = TRUE
  /\ skinsScreen' = Oldest.payload
  /\ UNCHANGED <<userId, localVars, pendingUpdatesRef, updateTimerRef,
                 autoClickerRef, timeouts, intervals, documentHidden, issued,
                 lastWrite, forced, historyVars, redeliveries, equips, app, beacons, signup, currentScreen,
                 upgradesScreen, purchases, lastPurchase>>

\* lines 90-92: the transact of a skin purchase rejected
SkinRejected ==
  /\ inflight # <<>>
  /\ Oldest.kind = "skin"
  /\ inflight' = Tail(inflight)
  /\ failures' = failures + 1
  /\ UNCHANGED <<userId, localVars, pendingUpdatesRef, updateTimerRef,
                 autoClickerRef, timeouts, intervals, documentHidden, remote,
                 issued, lastWrite, forced, inbox, lastNotified, mutations,
                 flushFailures, retriesScheduled, redeliveries, equips, app, beacons, signup, shopVars>>

\* ------------------------------------------------------- inline skins
\* handlePurchase(skinId) of the tap screen with inline skins, up to the await
InlinePurchase ==
  \E skinId \in DOMAIN SKINS :
    LET cost == SKINS[skinId]
        accepted == /\ userId # ""
                    /\ SkinAffordable(balance, cost)
                    /\ ~userOwnsSkin(ownedSkins, skinId)
    IN /\ currentScreen = "main"
       /\ purchases < MaxPurchases
       /\ NotePurchase(cost, balance, accepted)
       /\ IF accepted
          THEN IssueWrite("inline", SkinUpdate(balance, ownedSkins, skinId))
          ELSE UNCHANGED writeVars
       /\ UNCHANGED <<userId, localVars, pendingUpdatesRef, updateTimerRef,
                      autoClickerRef, timeouts, intervals, documentHidden,
                      remote, forced, inbox, historyVars, redeliveries, equips, app, beacons, signup,
                      currentScreen, upgradesScreen, skinsScreen>>

\* lines 254-274: after the awaited transact the handler calls setBalance,
\* setOwnedSkins and setCurrentSkin, and never scheduleUpdate
SlotAfterSpend(newBalance) == pendingUpdatesRef

\* the transact of an inline skin purchase resolved
InlineResolved ==
  /\ inflight # <<>>
  /\ Oldest.kind = "inline"
  /\ inflight' = Tail(inflight)
  /\ remote' = ApplySkin(remote, Oldest.payload)
  /\ inbox' = TRUE
  /\ balance' = Oldest.payload.balance
  /\ ownedSkins' = Oldest.payload.ownedSkins
  /\ currentSkin' = Oldest.payload.currentSkin
  /\ pendingUpdatesRef' = SlotAfterSpend(Oldest.payload.balance)
  /\ UNCHANGED <<userId, totalClicks, clickPower, multiplierLevel,
                 autoClickerLevel, updateTimerRef, autoClickerRef, timeouts,
                 intervals, documentHidden, issued, lastWrite, forced,
                 historyVars, redeliveries, equips, app, beacons, signup, shopVars>>

\* lines 277-279: the transact of an inline skin purchase rejected
InlineRejected ==
  /\ inflight # <<>>
  /\ Oldest.kind = "inline"
  /\ inflight' = Tail(inflight)
  /\ failures' = failures + 1
  /\ UNCHANGED <<userId, localVars, pendingUpdatesRef, updateTimerRef,
                 autoClickerRef, timeouts, intervals, documentHidden, remote,
                 issued, lastWrite, forced, inbox, lastNotified, mutations,
                 flushFailures, retriesScheduled, redeliveries, equips, app, beacons, signup, shopVars>>

\* ------------------------------------------------------- equipping a skin
\* a handler that equips whatever it is asked to
EquipOwnedAlways(owned, skinId) == TRUE

\* if (!userOwnsSkin(ownedSkins, skinId)) return: SkinsScreen line 36, and
\* line 222 of the tap screen with inline skins
EquipOwned(owned, skinId) == userOwnsSkin(owned, skinId)

\* disabled={equipped}: the Equip button of the equipped skin takes no click
EquipEnabled(equipped, skinId) == equipped # skinId

\* SkinsScreen.handleEquip(skinId), up to the await
SkinEquip ==
  \E skinId \in DOMAIN SKINS :
    /\ currentScreen = "skins"
    /\ equips < MaxEquips
    /\ EquipEnabled(skinsScreen.currentSkin, skinId)
    /\ equips' = equips + 1
    /\ IF EquipOwned(skinsScreen.ownedSkins, skinId)
       THEN IssueWrite("equip", [currentSkin |-> skinId])
       ELSE UNCHANGED writeVars
    /\ UNCHANGED <<userId, localVars, pendingUpdatesRef, updateTimerRef,
                   autoClickerRef, timeouts, intervals, documentHidden,
                   remote, forced, inbox, historyVars, redeliveries, shopVars,
                   app, beacons, signup>>

\* handleEquip(skinId) of the tap screen with inline skins, up to the await
InlineEquip ==
  \E skinId \in DOMAIN SKINS :
    /\ currentScreen = "main"
    /\ equips < MaxEquips
    /\ EquipEnabled(currentSkin, skinId)
    /\ equips' = equips + 1
    /\ IF EquipOwned(ownedSkins, skinId) /\ userId # ""
       THEN IssueWrite("equip", [currentSkin |-> skinId])
       ELSE UNCHANGED writeVars
    /\ UNCHANGED <<userId, localVars, pendingUpdatesRef, updateTimerRef,
                   autoClickerRef, timeouts, intervals, documentHidden,
                   remote, forced, inbox, historyVars, redeliveries, shopVars,
                   app, beacons, signup>>

\* db.tx.users[userId].update({currentSkin}) applied to the profile
ApplyEquip(profile, payload) ==
  [profile EXCEPT !.currentSkin = payload.currentSkin]

\* the transact of an equip resolved; neither screen sets state of its own
EquipResolved ==
  /\ inflight # <<>>
  /\ Oldest.kind = "equip"
  /\ inflight' = Tail(inflight)
  /\ remote' = ApplyEquip(remote, Oldest.payload)
  /\ inbox' = TRUE
  /\ UNCHANGED <<userId, localVars, pendingUpdatesRef, updateTimerRef,
                 autoClickerRef, timeouts, intervals, documentHidden, issued,
                 lastWrite, forced, historyVars, otherVars>>

\* the transact of an equip rejected: the catch block only logs
EquipRejected ==
  /\ inflight # <<>>
  /\ Oldest.kind = "equip"
  /\ inflight' = Tail(inflight)
  /\ failures' = failures + 1
  /\ UNCHANGED <<userId, localVars, pendingUpdatesRef, updateTimerRef,
                 autoClickerRef, timeouts, intervals, documentHidden, remote,
                 issued, lastWrite, forced, inbox, lastNotified, mutations,
                 flushFailures, retriesScheduled, otherVars>>

\* ------------------------------------------------------- the shared record
\* the levels the record may be given from outside
IncomeLevels == {0, 1, 5}

\* The record is written by something other than this session (a second
\* session of the user, the store's console): its autoClickerLevel becomes
\* another level, and the subscription will deliver the changed record.
ProfileRewritten ==
  \E level \in IncomeLevels :
    /\ userId # ""
    /\ level # remote.autoClickerLevel
    /\ remote' = [remote EXCEPT !.autoClickerLevel = level]
    /\ inbox' = TRUE
    /\ UNCHANGED <<userId, localVars, pendingUpdatesRef, updateTimerRef,
                   autoClickerRef, timeouts, intervals, documentHidden,
                   writeVars, forced, historyVars, otherVars>>

\* ------------------------------------------------------- App
\* App's global auto-clicker effect, useEffect(..., [userId, autoClickerLevel,
\* currentUserData]): the previous run's cleanup clears the interval, then the
\* body stops (and nulls the ref) without a user or at level 0, and otherwise
\* starts an interval whose callback keeps the data of this render
AppAutoClickerEffect(a, data, level) ==
  LET cleaned == ClearInterval(a.intervals, a.autoClickerRef)
      id == FreshId({i.id : i \in a.intervals} \cup {a.autoClickerRef})
  IN IF userId = "" \/ level = 0
     THEN [a EXCEPT !.currentUserData = data, !.autoClickerLevel = level,
                    !.intervals = cleaned, !.autoClickerRef = NoTimer]
     ELSE [a EXCEPT !.currentUserData = data, !.autoClickerLevel = level,
                    !.intervals = cleaned \cup
                       {[id |-> id, rate |-> calculateAutoClickerRate(level),
                         balance |-> Num(data.balance)]},
                    !.autoClickerRef = id]

\* App's useEffect(..., [currentUserData]) on a changed record of the user,
\* and the renders and effect runs that follow it
AppListener ==
  /\ userId # ""
  /\ app.currentUserData # remote
  /\ app' = AppAutoClickerEffect(app, remote, Num(remote.autoClickerLevel))
  /\ UNCHANGED <<userId, localVars, pendingUpdatesRef, updateTimerRef,
                 autoClickerRef, timeouts, intervals, documentHidden, remote,
                 writeVars, forced, inbox, historyVars, redeliveries,
                 shopVars, equips, beacons, signup>>

\* the setInterval callback of App's effect, up to the await: the balance of
\* the render's record plus the rate, written to the profile
AppIncomeTick ==
  \E iv \in app.intervals :
    /\ app.ticks < MaxGlobalTicks
    /\ app' = [app EXCEPT !.ticks = @ + 1]
    /\ IssueWrite("income", [balance |-> iv.balance + iv.rate])
    /\ UNCHANGED <<userId, localVars, pendingUpdatesRef, updateTimerRef,
                   autoClickerRef, timeouts, intervals, documentHidden,
                   remote, forced, inbox, historyVars, redeliveries,
                   shopVars, equips, beacons, signup>>

\* db.tx.users[userId].update({balance}) applied to the profile
ApplyIncome(profile, payload) == [profile EXCEPT !.balance = payload.balance]

\* the transact of App's income tick resolved
IncomeResolved ==
  /\ inflight # <<>>
  /\ Oldest.kind = "income"
  /\ inflight' = Tail(inflight)
  /\ remote' = ApplyIncome(remote, Oldest.payload)
  /\ inbox' = TRUE
  /\ UNCHANGED <<userId, localVars, pendingUpdatesRef, updateTimerRef,
                 autoClickerRef, timeouts, intervals, documentHidden, issued,
                 lastWrite, forced, historyVars, otherVars>>

\* the transact of App's income tick rejected: the catch block only logs
IncomeRejected ==
  /\ inflight # <<>>
  /\ Oldest.kind = "income"
  /\ inflight' = Tail(inflight)
  /\ failures' = failures + 1
  /\ UNCHANGED <<userId, localVars, pendingUpdatesRef, updateTimerRef,
                 autoClickerRef, timeouts, intervals, documentHidden, remote,
                 issued, lastWrite, forced, inbox, lastNotified, mutations,
                 flushFailures, retriesScheduled, otherVars>>

\* ------------------------------------------------------- teardown
\* the effect cleanups React runs when MainScreen unmounts: the auto-clicker
\* effect returned one only when its level was > 0 (lines 98-102); the
\* lifecycle effect's removes the two listeners (lines 169-172); nothing
\* clears updateTimerRef or the retry timeout
UnmountIntervals(is, ref, level) ==
  IF level > 0 THEN ClearInterval(is, ref) ELSE is

\* App.handleNavClick(screen) away from the tap screen: renderScreen mounts
\* another screen and MainScreen is torn down
Unmount ==
  /\ currentScreen = "main"
  /\ currentScreen' = "upgrades"
  /\ intervals' = UnmountIntervals(intervals, autoClickerRef, autoClickerLevel)
  /\ UNCHANGED <<userId, localVars, pendingUpdatesRef, updateTimerRef,
                 autoClickerRef, timeouts, documentHidden, remote, writeVars,
                 forced, inbox, historyVars, redeliveries, upgradesScreen,
                 skinsScreen, purchases, lastPurchase, equips, app, beacons, signup>>

\* ------------------------------------------------------- App: initialization
\* useQuery's data while no result has been delivered
Undefined == [undefined |-> TRUE]

\* the Telegram id of the session's user
TgId == 7

\* profiles the store may hold before the session starts: the user's own from
\* an earlier session, and a referrer's (another account: telegramId is unique)
OwnProfile ==
  [id |-> "u1", telegramId |-> TgId, referralCode |-> "MINE", balance |-> 5]
ReferrerProfile(b) ==
  [id |-> "r1", telegramId |-> 9, referralCode |-> "REF1",
   balance |-> b]
Stores ==
  { {}, {OwnProfile} }
    \cup { {ReferrerProfile(b)} : b \in {10, Missing} }
    \cup { {OwnProfile, ReferrerProfile(b)} : b \in {10, Missing} }

\* the state of App after its first render: no identity, nothing delivered
SignupConstructed(store) ==
  [telegramId |-> 0, telegramUser |-> Null, isInitialized |-> FALSE,
   userData |-> Undefined, effectDue |-> TRUE, users |-> store,
   referrals |-> {}, calls |-> <<>>, created |-> 0]

\* the dependencies of the initialization effect (line 436)
InitDeps(s) ==
  << s.userData, s.telegramId, s.telegramUser, s.isInitialized >>

\* the render after a state change: the effect is due when a dependency
\* differs from the render before
Rendered(old, new) ==
  [new EXCEPT !.effectDue = old.effectDue \/ InitDeps(old) # InitDeps(new)]

\* everything outside App's initialization
sessionFrame ==
  << localVars, pendingUpdatesRef, updateTimerRef, autoClickerRef, timeouts,
     intervals, documentHidden, remote, writeVars, forced, inbox, historyVars,
     redeliveries, shopVars, equips, app, beacons >>

\* the mount effect (lines 376-417): the Telegram user, or the fallback user,
\* and its id are stored; start_param becomes referralCodeUsed.  The query of
\* line 304 now asks for the new id; the hook hands the previous query's
\* result on until the new one is delivered, or nothing, as the library's
\* build decides.
MountEffect ==
  /\ signup.telegramId = 0
  /\ \E code \in {"", "REF1", "NOPE"}, data \in {signup.userData, Undefined} :
       signup' = Rendered(signup,
                   [signup EXCEPT
                      !.telegramUser = [id |-> TgId,
                                        referralCodeUsed |-> code],
                      !.telegramId = TgId,
                      !.userData = data])
  /\ UNCHANGED <<userId, sessionFrame>>

\* what the store answers to the query of lines 304-313 at this moment
QueryResult(s) ==
  [for |-> s.telegramId,
   users |-> { u.id : u \in { v \in s.users : v.telegramId = s.telegramId } }]

\* the subscription of line 304 delivers a result that differs from the one
\* the hook holds
DeliverUserData ==
  /\ signup.userData # QueryResult(signup)
  /\ signup' = Rendered(signup, [signup EXCEPT !.userData = QueryResult(signup)])
  /\ UNCHANGED <<userId, sessionFrame>>

\* createNewUser up to its first await (lines 439-469): a fresh id, and the
\* creation transaction issued; the store shows the record at once
CreateNewUser(s, tgUser) ==
  LET newUserId == << "n1", "n2", "n3", "n4" >>[s.created + 1]
      usedReferralCode == tgUser.referralCodeUsed
      initialBalance == IF usedReferralCode # "" THEN 50 ELSE 0
  IN [s EXCEPT
        !.users = @ \cup {[id |-> newUserId, telegramId |-> tgUser.id,
                            referralCode |-> "NEW",
                            balance |-> initialBalance]},
        !.calls = Append(@, [newUserId |-> newUserId, pc |-> "create",
                             code |-> usedReferralCode, referrer |-> Null]),
        !.created = @ + 1]

\* the initialization effect (lines 420-436)
InitEffect ==
  /\ signup.effectDue
  /\ LET s == [signup EXCEPT !.effectDue = FALSE] IN
     IF s.telegramId = 0 \/ s.telegramUser = Null \/ s.isInitialized
     THEN signup' = s /\ UNCHANGED userId
     ELSE IF s.userData # Undefined /\ s.userData.users # {}
     THEN \E existingUser \in s.userData.users :
            /\ userId' = existingUser
            /\ signup' = Rendered(s, [s EXCEPT !.isInitialized = TRUE])
     ELSE IF s.userData # Undefined
     THEN /\ s.created < MaxCreations
          /\ signup' = CreateNewUser(s, s.telegramUser)
          /\ UNCHANGED userId
     ELSE signup' = s /\ UNCHANGED userId
  /\ UNCHANGED sessionFrame

\* a fallback that leaves the user id empty
TempIdEmpty == ""

\* line 482: `temp_${Date.now()}`
TempId == "temp"

\* lines 478-479, 483-484: setUserId, setIsInitialized(true)
Settle(s, i, uid) ==
  /\ userId' = uid
  /\ signup' = Rendered(s, [s EXCEPT !.isInitialized = TRUE,
                                     !.calls[i].pc = "done"])

\* the creation transaction resolved (line 471 on): with a referral code
\* awardReferralBonus starts its queryOnce, and without one the session is
\* settled under the new id
CreateResolved ==
  /\ \E i \in DOMAIN signup.calls :
       /\ signup.calls[i].pc = "create"
       /\ IF signup.calls[i].code # ""
          THEN /\ signup' = [signup EXCEPT !.calls[i].pc = "lookup"]
               /\ UNCHANGED userId
          ELSE Settle(signup, i, signup.calls[i].newUserId)
  /\ UNCHANGED sessionFrame

\* the creation transaction rejected (lines 480-485): the store drops the
\* record again and the session is settled under a temporary id
CreateRejected ==
  /\ \E i \in DOMAIN signup.calls :
       /\ signup.calls[i].pc = "create"
       /\ Settle([signup EXCEPT
                    !.users = { u \in @ : u.id # signup.calls[i].newUserId }],
                 i, TempId)
  /\ UNCHANGED sessionFrame

\* a lookup that takes any earlier profile for the referrer
ReferrerMatchesAny(users, referrerCode) ==
  { u \in users : u.referralCode # "NEW" }

\* lines 494-503: where referralCode = referrerCode
ReferrerMatches(users, referrerCode) ==
  { u \in users : u.referralCode = referrerCode }

\* reward: 100, and the 100 stars added to the referrer's balance
ReferrerReward == 100

\* queryOnce resolved (lines 494-531): without a matching profile the function
\* returns; with one the referral record and the referrer's new balance are
\* written in one transaction
ReferrerLookupResolved ==
  /\ \E i \in DOMAIN signup.calls :
       LET call == signup.calls[i]
           found == ReferrerMatches(signup.users, call.code)
       IN /\ call.pc = "lookup"
          /\ IF found = {}
             THEN Settle(signup, i, call.newUserId)
             ELSE \E referrer \in found :
                    /\ signup' =
                         [signup EXCEPT
                            !.referrals = @ \cup
                               {[referrerId |-> referrer.id,
                                 referredUserId |-> call.newUserId,
                                 reward |-> ReferrerReward]},
                            !.users = (@ \ {referrer}) \cup
                               {[referrer EXCEPT !.balance =
                                   Num(referrer.balance) + ReferrerReward]},
                            !.calls[i].pc = "award",
                            !.calls[i].referrer = referrer]
                    /\ UNCHANGED userId
  /\ UNCHANGED sessionFrame

\* queryOnce rejected: caught at line 528, createNewUser goes on
ReferrerLookupRejected ==
  /\ \E i \in DOMAIN signup.calls :
       /\ signup.calls[i].pc = "lookup"
       /\ Settle(signup, i, signup.calls[i].newUserId)
  /\ UNCHANGED sessionFrame

\* the referral transaction resolved
AwardResolved ==
  /\ \E i \in DOMAIN signup.calls :
       /\ signup.calls[i].pc = "award"
       /\ Settle(signup, i, signup.calls[i].newUserId)
  /\ UNCHANGED sessionFrame

\* the referral transaction rejected: the store drops the record and the
\* bonus, the error is caught at line 528, createNewUser goes on
AwardRejected ==
  /\ \E i \in DOMAIN signup.calls :
       LET call == signup.calls[i] IN
       /\ call.pc = "award"
       /\ Settle([signup EXCEPT
                    !.referrals = { r \in @ :
                                      r.referredUserId # call.newUserId },
                    !.users = { IF u.id = call.referrer.id
                                THEN call.referrer ELSE u : u \in @ }],
                 i, call.newUserId)
  /\ UNCHANGED sessionFrame

\* ------------------------------------------------------- specification
\* The profiles a session may start from: a fresh one whose numeric fields the
\* store has not filled in, and ones with a balance, taps and upgrades.
Profile(b, c, cp, ml, ac) ==
  [balance |-> b, totalClicks |-> c, clickPower |-> cp, multiplierLevel |-> ml,
   autoClickerLevel |-> ac, currentSkin |-> "default",
   ownedSkins |-> {"default"}]

\* the state of the screens and of the browser after construction, the
\* profile being one of profiles and the mounted screen one of screens
InitScreens(profiles, screens) ==
  /\ userId \in {"", "u1"}
  /\ balance = 0
  /\ totalClicks = 0
  /\ clickPower = 0
  /\ multiplierLevel = 0
  /\ autoClickerLevel = 0
  /\ currentSkin = "default"
  /\ ownedSkins = {"default"}
  /\ pendingUpdatesRef = Null
  /\ updateTimerRef = NoTimer
  /\ autoClickerRef = NoTimer
  /\ timeouts = {}
  /\ intervals = {}
  /\ documentHidden = FALSE
  /\ remote \in profiles
  /\ inflight = <<>>
  /\ issued = 0
  /\ lastWrite = Null
  /\ forced = 0
  /\ inbox = (userId # "")
  /\ lastNotified = Null
  /\ mutations = 0
  /\ failures = 0
  /\ flushFailures = 0
  /\ retriesScheduled = 0
  /\ redeliveries = 0
  /\ currentScreen \in screens
  /\ upgradesScreen = [balance |-> 0, clickPower |-> 0, multiplierLevel |-> 0,
                       autoClickerLevel |-> 0]
  /\ skinsScreen = [balance |-> 0, currentSkin |-> "default",
                    ownedSkins |-> {"default"}]
  /\ purchases = 0
  /\ lastPurchase = Null
  /\ equips = 0
  /\ app = [currentUserData |-> Null, autoClickerLevel |-> 0,
            autoClickerRef |-> NoTimer, intervals |-> {}, ticks |-> 0]
  /\ beacons = <<>>

\* the state after App and the mounted screen are constructed: without a user
\* id App has just rendered for the first time, with one it is settled
InitWith(profiles, screens) ==
  /\ InitScreens(profiles, screens)
  /\ signup = IF userId = "" THEN SignupConstructed({})
              ELSE [telegramId |-> TgId,
                    telegramUser |-> [id |-> TgId, referralCodeUsed |-> ""],
                    isInitialized |-> TRUE,
                    userData |-> [for |-> TgId, users |-> {userId}],
                    effectDue |-> FALSE,
                    users |-> {[OwnProfile EXCEPT !.id = userId]},
                    referrals |-> {}, calls |-> <<>>, created |-> 0]

Init ==
  InitWith({ [Profile(Missing, Missing, 2, 0, 0) EXCEPT !.ownedSkins = NoSkins],
               Profile(0, 0, 1, 0, 1),
               Profile(2, 1, 0, 5, 0),
               Profile(2, 1, 2, 5, 1) },
           {"main"})

Next ==
  \/ Tap
  \/ IncomeTick
  \/ InboundSnapshot
  \/ DebounceExpiry
  \/ FlushResolved
  \/ FlushRejected
  \/ RetryExpiry
  \/ UnawaitedResolved
  \/ UnawaitedRejected
  \/ VisibilityChange

Spec == Init /\ [][Next]_vars

\* The same session when no transaction is ever rejected (no retry timer is
\* ever started, so the retry callback has nothing to run).
NextNoFailure ==
  \/ Tap
  \/ IncomeTick
  \/ InboundSnapshot
  \/ DebounceExpiry
  \/ FlushResolved
  \/ UnawaitedResolved
  \/ VisibilityChange

SpecNoFailure == Init /\ [][NextNoFailure]_vars

\* One burst of taps: every tap after the first arrives while the debounce
\* timer of the previous one is still pending, no persist fails, and no income
\* tick or lifecycle signal interferes.
BurstTap ==
  /\ userId # ""
  /\ mutations = 0 \/ UpdateTimers # {}
  /\ Tap

NextBurst ==
  \/ BurstTap
  \/ InboundSnapshot
  \/ DebounceExpiry
  \/ FlushResolved

SpecBurst == Init /\ [][NextBurst]_vars

\* The session with snapshots handed over a second time, no persist failing
\* and no income tick or lifecycle signal interfering.
NextRedelivery ==
  \/ Tap
  \/ InboundSnapshot
  \/ Redeliver
  \/ DebounceExpiry
  \/ FlushResolved

SpecRedelivery == Init /\ [][NextRedelivery]_vars

\* The profiles the shop is entered with: one that affords two levels of
\* click power and nothing else, one with every upgrade at or next to its
\* maximum, one that affords exactly the cheapest skin, one that owns a skin,
\* and one whose fields the store has not filled in.
ShopProfiles ==
  { Profile(250, 0, 0, 0, 0),
    Profile(300000000, 7, 50, 19, 30),
    Profile(10000, 3, 2, 0, 0),
    [Profile(35000, 3, 0, 0, 0) EXCEPT !.ownedSkins = {"default", "pumpkin"},
                                        !.currentSkin = "pumpkin"],
    [Profile(Missing, Missing, Missing, Missing, Missing)
       EXCEPT !.ownedSkins = NoSkins, !.currentSkin = ""] }

\* App renders one screen (renderScreen): the tap screen, here with its inline
\* skins, the upgrades screen or the skins screen; no persist of the tap
\* screen fails.
NextShop ==
  \/ /\ currentScreen = "main"
     /\ \/ Tap
        \/ InboundSnapshot
        \/ DebounceExpiry
        \/ FlushResolved
  \/ InlinePurchase
  \/ InlineResolved
  \/ InlineRejected
  \/ UpgradesListener
  \/ UpgradePurchase
  \/ UpgradeResolved
  \/ UpgradeRejected
  \/ SkinsListener
  \/ SkinPurchase
  \/ SkinResolved
  \/ SkinRejected

SpecShop ==
  /\ InitWith(ShopProfiles,
              {"main", "upgrades", "skins"})
  /\ [][NextShop]_vars

\* The session spent on the upgrades screen, the only writer of the levels.
NextUpgrades ==
  \/ UpgradesListener
  \/ UpgradePurchase
  \/ UpgradeResolved
  \/ UpgradeRejected

SpecUpgrades ==
  /\ InitWith(ShopProfiles,
              {"upgrades"})
  /\ [][NextUpgrades]_vars

\* Every step that changes a balance, the income tick included, from a
\* profile that affords exactly the cheapest skin and earns 1 per second and
\* from one that affords two levels of click power.
NextBalance ==
  \/ NextShop
  \/ /\ currentScreen = "main"
     /\ IncomeTick

SpecBalance ==
  /\ InitWith({ Profile(10000, 3, 0, 0, 1),
                Profile(250, 0, 0, 0, 0) },
              {"main", "upgrades", "skins"})
  /\ [][NextBalance]_vars

\* The skins of a session: bought and equipped on the skins screen or on the
\* tap screen with inline skins, from a profile that affords two skins, one
\* that owns a skin it has equipped, one that owns a skin and wears the
\* default, and one whose fields the store has not filled in.
NextSkins ==
  \/ /\ currentScreen = "main"
     /\ InboundSnapshot
  \/ InlinePurchase
  \/ InlineResolved
  \/ InlineRejected
  \/ InlineEquip
  \/ SkinsListener
  \/ SkinPurchase
  \/ SkinResolved
  \/ SkinRejected
  \/ SkinEquip
  \/ EquipResolved
  \/ EquipRejected

SpecSkins ==
  /\ InitWith({ Profile(35000, 3, 0, 0, 0),
                [Profile(35000, 3, 0, 0, 0) EXCEPT !.ownedSkins = {"default", "pumpkin"},
                !.currentSkin = "pumpkin"],
                [Profile(25000, 3, 0, 0, 0) EXCEPT !.ownedSkins = {"default", "pumpkin"}],
                [Profile(Missing, Missing, Missing, Missing, Missing)
                EXCEPT !.ownedSkins = NoSkins, !.currentSkin = ""] },
              {"main", "skins"})
  /\ [][NextSkins]_vars

\* The income timer of the tap screen while the record's autoClickerLevel is
\* changed from outside, no persist failing and no lifecycle signal
\* interfering.
NextIncome ==
  \/ Tap
  \/ IncomeTick
  \/ InboundSnapshot
  \/ DebounceExpiry
  \/ FlushResolved
  \/ ProfileRewritten

SpecIncome ==
  /\ InitWith({ Profile(0, 0, 0, 0, 0),
                Profile(10, 1, 0, 0, 5),
                Profile(2, 1, 1, 0, 1) },
              {"main"})
  /\ [][NextIncome]_vars

\* The tap screen mounted under the App that keeps a global auto-clicker: both
\* components subscribe to the user's record and both run an income timer.
NextGlobalIncome ==
  \/ Tap
  \/ IncomeTick
  \/ InboundSnapshot
  \/ DebounceExpiry
  \/ FlushResolved
  \/ AppListener
  \/ AppIncomeTick
  \/ IncomeResolved
  \/ IncomeRejected

SpecGlobalIncome ==
  /\ InitWith({ Profile(0, 0, 1, 0, 0),
                Profile(10, 1, 0, 0, 1) },
              {"main"})
  /\ [][NextGlobalIncome]_vars

\* The tap screen until and after it is torn down: its handlers and its
\* listener run only while it is mounted; the browser's timers and the pending
\* promises are not bound to the component.
NextTeardown ==
  \/ /\ currentScreen = "main"
     /\ \/ Tap
        \/ InboundSnapshot
  \/ IncomeTick
  \/ DebounceExpiry
  \/ FlushResolved
  \/ FlushRejected
  \/ RetryExpiry
  \/ UnawaitedResolved
  \/ Unmount
  \/ UpgradesListener

SpecTeardown == Init /\ [][NextTeardown]_vars

\* The writes of one session in the order they are issued: a returning user
\* who earns 1 per second, with persists that may fail, the retry and the
\* forced flush.
NextOrder ==
  \/ TapWithin(MaxOrderMutations)
  \/ IncomeTickWithin(MaxOrderMutations)
  \/ InboundSnapshot
  \/ DebounceExpiry
  \/ FlushResolved
  \/ FlushRejected
  \/ RetryExpiry
  \/ UnawaitedResolved
  \/ VisibilityChange

SpecOrder ==
  /\ InitWith({ Profile(2, 1, 0, 0, 1) },
              {"main"})
  /\ [][NextOrder]_vars

\* The upgrades screen entered at levels drawn from the first ones, ones in
\* the middle and the maximum of each upgrade, with a balance that affords
\* every cost.
SpecCosts ==
  /\ InitWith({ Profile(2000000000, 0, cp, ml, ac) :
                cp \in {0, 1, 12, 50}, ml \in {0, 17, 20}, ac \in {0, 3, 30} },
              {"upgrades"})
  /\ [][NextUpgrades]_vars

\* Taps at click power and multiplier levels drawn from the low, middle and
\* high ends of their ranges, no auto-clicker and no persist failing.
NextClicks ==
  \/ Tap
  \/ InboundSnapshot
  \/ DebounceExpiry
  \/ FlushResolved

SpecClicks ==
  /\ InitWith({ Profile(0, 0, cp, ml, 0) :
                cp \in {0, 2, 44, 49, 50}, ml \in {0, 1, 4, 13, 18, 20} },
              {"main"})
  /\ [][NextClicks]_vars

\* The tap screen with both lifecycle signals: the document's visibility
\* changes and the window is about to unload (an unload the user cancels
\* leaves the session running); no transaction is rejected.
NextLifecycle ==
  \/ Tap
  \/ IncomeTick
  \/ InboundSnapshot
  \/ DebounceExpiry
  \/ FlushResolved
  \/ UnawaitedResolved
  \/ VisibilityChange
  \/ BeforeUnload

SpecLifecycle == Init /\ [][NextLifecycle]_vars

\* App from its first render until the session is settled, the store holding
\* any of Stores and every transaction and query free to fail.
InitSignup ==
  /\ InitScreens({Profile(0, 0, 1, 0, 0)}, {"main"})
  /\ userId = ""
  /\ \E store \in Stores : signup = SignupConstructed(store)

NextSignup ==
  \/ MountEffect
  \/ DeliverUserData
  \/ InitEffect
  \/ CreateResolved
  \/ CreateRejected
  \/ ReferrerLookupResolved
  \/ ReferrerLookupRejected
  \/ AwardResolved
  \/ AwardRejected

SpecSignup == InitSignup /\ [][NextSignup]_vars

\* The same, every effect that is due running and every transaction and
\* query that was issued coming back, one way or the other.
SpecSignupFair ==
  /\ InitSignup
  /\ [][NextSignup]_vars
  /\ WF_vars(InitEffect)
  /\ WF_vars(CreateResolved \/ CreateRejected)
  /\ WF_vars(ReferrerLookupResolved \/ ReferrerLookupRejected)
  /\ WF_vars(AwardResolved \/ AwardRejected)

\* Spending with taps pending: a profile that affords the cheapest skin and a
\* level of click power, bought on the tap screen with inline skins or, after
\* leaving the tap screen, on the upgrades screen; no transaction is rejected.
SpendStart == 10100

NextSpend ==
  \/ /\ currentScreen = "main"
     /\ \/ Tap
        \/ InboundSnapshot
  \/ DebounceExpiry
  \/ FlushResolved
  \/ InlinePurchase
  \/ InlineResolved
  \/ Unmount
  \/ UpgradesListener
  \/ UpgradePurchase
  \/ UpgradeResolved

SpecSpend ==
  /\ InitWith({ Profile(SpendStart, 0, 0, 0, 0) },
              {"main"})
  /\ [][NextSpend]_vars

\* Two skins bought in one session, on the skins screen or on the tap screen
\* with inline skins, from a profile that affords the two cheapest together;
\* no transaction is rejected.
NextTwoSkins ==
  \/ /\ currentScreen = "main"
     /\ InboundSnapshot
  \/ InlinePurchase
  \/ InlineResolved
  \/ SkinsListener
  \/ SkinPurchase
  \/ SkinResolved

SpecTwoSkins ==
  /\ InitWith({ Profile(35000, 0, 0, 0, 0) },
              {"main", "skins"})
  /\ [][NextTwoSkins]_vars

\* Persists that fail and are retried, for a new user and for a returning
\* one who earns 1 per second; no lifecycle signal.
NextRetry ==
  \/ Tap
  \/ IncomeTick
  \/ InboundSnapshot
  \/ DebounceExpiry
  \/ FlushResolved
  \/ FlushRejected
  \/ RetryExpiry
  \/ UnawaitedResolved
  \/ UnawaitedRejected

SpecRetry ==
  /\ InitWith({ Profile(0, 0, 0, 0, 0),
                Profile(2, 1, 1, 5, 1) },
              {"main"})
  /\ [][NextRetry]_vars

\* The session in which every persist ends up succeeding: a debounce-expiry
\* persist may be rejected, but the retry it starts and every forced flush
\* resolve.  Timers fire, promises settle and the subscription delivers, so
\* these steps are taken once they stay possible; taps, income ticks and
\* visibility changes may stop at any time.
NextPersisting ==
  \/ Tap
  \/ IncomeTick
  \/ InboundSnapshot
  \/ DebounceExpiry
  \/ FlushResolved
  \/ FlushRejected
  \/ RetryExpiry
  \/ UnawaitedResolved
  \/ VisibilityChange

FairPersisting ==
  /\ WF_vars(InboundSnapshot)
  /\ WF_vars(DebounceExpiry)
  /\ WF_vars(RetryExpiry)
  /\ WF_vars(FlushResolved \/ FlushRejected)
  /\ WF_vars(UnawaitedResolved)

SpecPersisting == Init /\ [][NextPersisting]_vars /\ FairPersisting


\* ------------------------------------------------------- C1
\* C1: whenever the pending-write slot is non-empty, handling an inbound
\* snapshot leaves the local balance and the local totalClicks unchanged (a
\* remote balance below the local one never lowers the local balance).
C1_GuardedMerge ==
  [][(InboundHandled /\ pendingUpdatesRef # Null)
       => (balance' = balance /\ totalClicks' = totalClicks)]_vars

\* A tap made at clickPower 0 (value 1) precedes the delivery of the profile
\* with clickPower 2 and a missing balance: the listener has run with the slot
\* non-empty and a remote balance (0) below the local one (1).
C1_Witness ==
  /\ pendingUpdatesRef # Null
  /\ ~inbox
  /\ clickPower = 2
  /\ multiplierLevel = 0
  /\ balance = 1
  /\ Num(remote.balance) < balance


\* ------------------------------------------------------- C2
\* nothing is left that could still write: no debounce or retry timer is
\* pending and no transaction is unresolved
Quiescent == timeouts = {} /\ inflight = <<>>

\* C2: when every persist succeeds and the local mutations have stopped, the
\* remote profile ends up holding the last snapshot a tap or income tick
\* produced, also when that snapshot was notified while an earlier flush was
\* still in flight.  Stated on the final state: once no timer is pending and no
\* transaction is unresolved, the remote {balance, totalClicks} is the last
\* notified snapshot.
C2_NoLostFinalValue ==
  (Quiescent /\ lastNotified # Null) => RemoteMatches(lastNotified)

\* ------------------------------------------------------- C3
\* C3: N >= 1 taps, each arriving before the debounce timer started by the
\* previous one expires, with no persist failing, cause exactly one remote
\* write, and it carries the final snapshot: once a write has been issued it is
\* the only one, it is the debounce flush of the last notified snapshot, whose
\* values are the local balance and totalClicks after all N taps; and when the
\* burst's timer is gone the write has been issued.
C3_BurstCoalesced ==
  /\ issued <= 1
  /\ issued = 1 =>
       /\ lastWrite = [kind |-> "flush", payload |-> lastNotified]
       /\ lastWrite.payload = Snapshot(balance, totalClicks)
  /\ (mutations >= 1 /\ UpdateTimers = {}) => issued = 1

\* the scenario of two taps of value 3 from balance 0: one write, with
\* balance 6 and totalClicks 2
C3_Witness ==
  /\ mutations = 2
  /\ issued = 1
  /\ UpdateTimers = {}
  /\ lastWrite = [kind |-> "flush", payload |-> Snapshot(6, 2)]


\* ------------------------------------------------------- C4
\* C4: if a tap or income tick has produced a snapshot that the remote profile
\* does not hold yet, the pending-write slot is non-empty.
C4_SlotHeldUntilPersisted ==
  (lastNotified # Null /\ ~RemoteMatches(lastNotified))
    => pendingUpdatesRef # Null

\* ------------------------------------------------------- C5
\* C5: each failed debounce-expiry persist starts exactly one retry timer, and
\* a failed retry (or any other failure) starts none: the retry timers ever
\* started are as many as the debounce-expiry persists that failed, so the
\* retries still pending or already attempted never outnumber those failures.
C5_SingleRetry ==
  /\ retriesScheduled = flushFailures
  /\ Cardinality(RetryTimers) <= flushFailures

\* a debounce-expiry persist failed, its one retry was attempted and rejected
\* too (the remote profile never received the snapshot), and nothing is
\* scheduled or in flight any more
C5_Witness ==
  /\ flushFailures = 1
  /\ retriesScheduled = 1
  /\ lastWrite.kind = "retry"
  /\ ~RemoteMatches(lastWrite.payload)
  /\ Quiescent
  /\ pendingUpdatesRef # Null

\* ------------------------------------------------------- C6
\* the oldest unresolved transaction, of this kind and carrying the slot's
\* current contents, is committed in this step
Persisted(kind) ==
  /\ inflight # <<>>
  /\ Head(inflight) = [kind |-> kind, payload |-> pendingUpdatesRef]
  /\ inflight' = Tail(inflight)
  /\ remote' # remote
  /\ RemoteMatches(pendingUpdatesRef)'

\* C6: once the retry has successfully persisted the slot's current contents,
\* the pending-write slot is empty.
C6_RetrySuccessClears ==
  [][Persisted("retry") => pendingUpdatesRef' = Null]_vars

\* ------------------------------------------------------- C7
\* C7: a failed persist and a failed retry leave the local balance and
\* totalClicks unchanged and leave the pending-write slot as it was, holding
\* the latest snapshot as long as the remote profile does not hold it; and
\* after a failure the expiry of a debounce timer persists the latest snapshot
\* (unless the remote profile holds it already).
C7_FailureRetention ==
  /\ [][LET \* a debounce-expiry persist or a retry is rejected in this step
            PersistRejected ==
              /\ failures' = failures + 1
              /\ Head(inflight).kind \in {"flush", "retry"}
        IN PersistRejected =>
             /\ balance' = balance
             /\ totalClicks' = totalClicks
             /\ pendingUpdatesRef' = pendingUpdatesRef
             /\ ~RemoteMatches(lastNotified)
                  => pendingUpdatesRef' = lastNotified
       ]_vars
  /\ [][LET \* a debounce timer expires in this step
            DebounceExpired ==
              /\ UpdateTimers # {}
              /\ UpdateTimers' = {}
              /\ mutations' = mutations
        IN (failures > 0 /\ DebounceExpired /\ ~RemoteMatches(lastNotified))
             => lastWrite' = [kind |-> "flush", payload |-> lastNotified]]_vars

\* ------------------------------------------------------- C8
\* C8: at most one debounce timer is pending, and it is the one the ref holds;
\* a notify, also one made while a debounce timer is pending, leaves exactly
\* one pending debounce timer.
C8_OneDebounceTimer ==
  /\ [](/\ Cardinality(UpdateTimers) <= 1
        /\ \A t \in UpdateTimers : t.id = updateTimerRef)
  /\ [][mutations' = mutations + 1 => Cardinality(UpdateTimers') = 1]_vars

\* two notifies, the second made while the first one's timer was pending, and
\* one pending timer
C8_Witness ==
  /\ mutations = 2
  /\ issued = 0
  /\ Cardinality(UpdateTimers) = 1

\* ------------------------------------------------------- C9
\* C9: when the document becomes hidden while the slot is non-empty and a user
\* id is present, that same step issues one transaction carrying exactly the
\* slot's {balance, totalClicks}, and the debounce timer is left as it was.
C9_ForceFlushOnHidden ==
  [][(~documentHidden /\ documentHidden' /\ pendingUpdatesRef # Null
        /\ userId # "")
       => /\ issued' = issued + 1
          /\ lastWrite' = [kind |-> "force", payload |-> pendingUpdatesRef]
          /\ inflight' = Append(inflight, lastWrite')
          /\ timeouts' = timeouts]_vars

\* the forced flush was issued while the debounce timer was still pending
C9_Witness ==
  /\ documentHidden
  /\ lastWrite = [kind |-> "force", payload |-> pendingUpdatesRef]
  /\ UpdateTimers # {}
  /\ Len(inflight) = 1

\* ------------------------------------------------------- C10
\* C10: once a forced flush has successfully persisted the slot's current
\* contents, the pending-write slot is empty.
C10_ForceSuccessClears ==
  [][Persisted("force") => pendingUpdatesRef' = Null]_vars

\* ------------------------------------------------------- C11
\* C11: when the pending-write slot is empty, handling an inbound snapshot
\* sets the local balance and totalClicks to the inbound values coerced to
\* numbers, a missing or non-numeric value being read as 0.
C11_UnguardedMerge ==
  [][(InboundHandled /\ pendingUpdatesRef = Null)
       => /\ balance' = (IF remote.balance = Missing THEN 0
                         ELSE remote.balance)
          /\ totalClicks' = (IF remote.totalClicks = Missing THEN 0
                             ELSE remote.totalClicks)]_vars

\* the profile with balance 2 and totalClicks 1 has been delivered with the
\* slot empty: both local values, 0 until then, were taken over (its
\* multiplierLevel 5 is mirrored too)
C11_Witness ==
  /\ ~inbox
  /\ pendingUpdatesRef = Null
  /\ mutations = 0
  /\ remote.balance = 2
  /\ remote.totalClicks = 1
  /\ multiplierLevel = 5
  /\ balance = 2
  /\ totalClicks = 1

\* ------------------------------------------------------- C12
\* the local balance and totalClicks are the coerced values of the profile
LocalMirrorsRemote ==
  /\ balance = Num(remote.balance)
  /\ totalClicks = Num(remote.totalClicks)

SnapshotApplied ==
  /\ pendingUpdatesRef = Null
  /\ LocalMirrorsRemote
  /\ clickPower = Num(remote.clickPower)
  /\ multiplierLevel = Num(remote.multiplierLevel)
  /\ autoClickerLevel = Num(remote.autoClickerLevel)
  /\ currentSkin = SkinOrDefault(remote.currentSkin)
  /\ ownedSkins = OwnedOrDefault(remote.ownedSkins)

\* C13: with the pending-write slot empty, a snapshot delivered again after
\* it has been applied leaves the local session state (balance, totalClicks,
\* upgrade levels, equipped skin) as the first delivery left it.
C13_ListenerIdempotent ==
  [][(InboundHandled /\ SnapshotApplied) => UNCHANGED localVars]_vars

\* the profile with balance 2 was delivered, handed over a second time and
\* handled again, the slot being empty
C13_Witness ==
  /\ redeliveries = 1
  /\ ~inbox
  /\ mutations = 0
  /\ pendingUpdatesRef = Null
  /\ balance = 2
  /\ totalClicks = 1
  /\ multiplierLevel = 5

\* ------------------------------------------------------- C14
\* C14: every inbound snapshot handled by the tap screen, the pending-write
\* slot being empty or not, sets the local upgrade levels, the equipped skin
\* and the owned skins to the inbound values (coerced to numbers, defaulted
\* when absent).
C14_UnconditionalFields ==
  [][(currentScreen = "main" /\ InboundHandled)
       => /\ clickPower' = Num(remote.clickPower)
          /\ multiplierLevel' = Num(remote.multiplierLevel)
          /\ autoClickerLevel' = Num(remote.autoClickerLevel)
          /\ currentSkin' = SkinOrDefault(remote.currentSkin)
          /\ ownedSkins' = OwnedOrDefault(remote.ownedSkins)]_vars

\* on the tap screen with inline skins a tap preceded the first delivery,
\* which found the slot non-empty: the owned skins and the equipped skin of
\* the profile were taken over while the balance and totalClicks stayed those
\* of the tap
C14_Witness ==
  /\ currentScreen = "main"
  /\ pendingUpdatesRef = Snapshot(1, 1)
  /\ ~inbox
  /\ ownedSkins = {"default", "pumpkin"}
  /\ currentSkin = "pumpkin"
  /\ balance = 1
  /\ totalClicks = 1
  /\ remote.balance = 35000
  /\ remote.totalClicks = 3

\* ------------------------------------------------------- C15
\* a debounce-expiry persist completes in this step
FlushCompleted ==
  /\ inflight # <<>>
  /\ Head(inflight).kind = "flush"
  /\ inflight' = Tail(inflight)

\* C15: handling an inbound snapshot leaves the pending-write slot (presence
\* and contents) and the timeouts (debounce and retry) with their ref as they
\* were; the slot changes only in a notify or when a debounce-expiry persist
\* completes.
C15_ListenerFrame ==
  /\ [][InboundHandled
          => /\ pendingUpdatesRef' = pendingUpdatesRef
             /\ timeouts' = timeouts
             /\ updateTimerRef' = updateTimerRef]_vars
  /\ [][pendingUpdatesRef' # pendingUpdatesRef
          => (mutations' = mutations + 1 \/ FlushCompleted)]_vars

\* a snapshot was handled between a tap and the expiry of its debounce timer:
\* slot and timer are still those of the tap
C15_Witness ==
  /\ pendingUpdatesRef = Snapshot(1, 1)
  /\ ~inbox
  /\ mutations = 1
  /\ issued = 0
  /\ timeouts = {[id |-> updateTimerRef, kind |-> "update"]}
  /\ clickPower = 1
  /\ autoClickerLevel = 1

\* ------------------------------------------------------- C16
\* a purchase handler is called in this step
PurchaseAttempted == purchases' = purchases + 1

\* the transact of a purchase resolves in this step
PurchaseCommitted ==
  /\ inflight # <<>>
  /\ Head(inflight).kind \in {"upgrade", "skin", "inline"}
  /\ inflight' = Tail(inflight)
  /\ failures' = failures

\* C16: a purchase handler (upgrade, skin, inline skin) called with cost c at
\* local balance b, c > b, issues no transaction and leaves the balances, the
\* levels and the owned skins, local and remote, as they were; when it issues
\* one, c <= b and the transaction carries the balance b - c, which is what
\* the profile's balance (and the balance the skin handlers then set locally)
\* is once the transaction has resolved.
C16_Spend ==
  /\ [][(PurchaseAttempted /\ lastPurchase'.cost > lastPurchase'.balance)
          => /\ ~lastPurchase'.issued
             /\ UNCHANGED <<writeVars, remote, localVars, upgradesScreen,
                            skinsScreen>>]_vars
  /\ [][(PurchaseAttempted /\ lastPurchase'.issued)
          => /\ lastPurchase'.cost <= lastPurchase'.balance
             /\ issued' = issued + 1
             /\ lastWrite'.payload.balance =
                  lastPurchase'.balance - lastPurchase'.cost]_vars
  /\ [][PurchaseCommitted
          => /\ remote'.balance = Head(inflight).payload.balance
             /\ Head(inflight).kind = "skin"
                  => skinsScreen'.balance = Head(inflight).payload.balance
             /\ Head(inflight).kind = "inline"
                  => balance' = Head(inflight).payload.balance]_vars

\* click power bought twice from 250: level 0 for 100, then, the echo having
\* shown 150, level 1 for exactly the 150 that were left
C16_Witness ==
  /\ currentScreen = "upgrades"
  /\ purchases = 2
  /\ lastPurchase = [cost |-> 150, balance |-> 150, issued |-> TRUE]
  /\ inflight = <<>>
  /\ failures = 0
  /\ remote.balance = 0
  /\ remote.clickPower = 2

\* ------------------------------------------------------- C17
\* C17: in every reachable state the balance of the tap screen, of the
\* upgrades screen and of the skins screen and the balance of the remote
\* profile (when the profile has one) are at least 0.
C17_NonNegativeBalance ==
  /\ balance >= 0
  /\ upgradesScreen.balance >= 0
  /\ skinsScreen.balance >= 0
  /\ remote.balance # Missing => remote.balance >= 0

\* the cheapest skin was bought with exactly the 10000 the profile held: the
\* local and the remote balance are 0
C17_Witness ==
  /\ currentScreen = "skins"
  /\ lastPurchase = [cost |-> 10000, balance |-> 10000, issued |-> TRUE]
  /\ inflight = <<>>
  /\ remote.autoClickerLevel = 1
  /\ skinsScreen.balance = 0
  /\ skinsScreen.ownedSkins = {"default", "pumpkin"}
  /\ remote.balance = 0

\* ------------------------------------------------------- C18
\* a tap is accepted in this step: it notifies the counter's successor
TapAccepted ==
  /\ mutations' = mutations + 1
  /\ lastNotified'.clicks = totalClicks + 1

\* C18: no step (tap, income tick, flush completion, retry, lifecycle signal,
\* inbound snapshot) lowers the local totalClicks, and an accepted tap raises
\* it by exactly 1.
C18_TapCounterMonotonic ==
  /\ [][totalClicks' >= totalClicks]_vars
  /\ [][TapAccepted => totalClicks' = totalClicks + 1]_vars

\* ------------------------------------------------------- C19
\* C19: right after every successful local mutation of the balance (a tap, an
\* income tick, a successful spend) the pending-write slot holds the new
\* {balance, totalClicks} and a debounce timer is pending.
C19_NotifyOnEveryMutation ==
  [][LET \* the tap screen's balance is changed by a successful spend in
         \* this step
         SpendApplied ==
           /\ inflight # <<>>
           /\ Head(inflight).kind = "inline"
           /\ inflight' = Tail(inflight)
           /\ failures' = failures
         \* the coalescer has been notified of the local values: the slot
         \* holds them and a debounce timer is pending
         Notified ==
           /\ pendingUpdatesRef = Snapshot(balance, totalClicks)
           /\ UpdateTimers # {}
     IN (mutations' = mutations + 1 \/ SpendApplied) => Notified']_vars

\* ------------------------------------------------------- C20
\* the level the profile carries for an upgrade (0 when absent)
PersistedLevel(profile, upgradeId) == Num(profile[LevelField(upgradeId)])

\* C20: over any sequence of upgrade purchases of one session, purchases at
\* the maximum level and purchases issued again before the echo of the
\* previous one included, no persisted upgrade level decreases and none
\* exceeds its maxLevel (50, 20, 30).
C20_LevelsBounded ==
  /\ [](\A upgradeId \in DOMAIN UPGRADES :
          PersistedLevel(remote, upgradeId) <= UPGRADES[upgradeId].maxLevel)
  /\ [][\A upgradeId \in DOMAIN UPGRADES :
          PersistedLevel(remote', upgradeId)
            >= PersistedLevel(remote, upgradeId)]_vars

\* the multiplier was bought from level 19 to its maximum 20 for 262144000,
\* and the next call, at the maximum, was turned away
C20_Witness ==
  /\ currentScreen = "upgrades"
  /\ remote.multiplierLevel = 20
  /\ remote.balance = 37856000
  /\ upgradesScreen.multiplierLevel = 20
  /\ purchases = 2
  /\ lastPurchase = [cost |-> 0, balance |-> 37856000, issued |-> FALSE]
  /\ inflight = <<>>

IncomeTimerMatchesLevel == (intervals # {}) <=> (autoClickerLevel > 0)

\* C22: in every state of a mounted tap screen the 1-second income timer is
\* active if and only if the local autoClickerLevel is > 0; a step that takes
\* the level from 0 to a positive one starts a timer where none was, and a
\* step that takes it to 0 cancels the one that was running.
C22_IncomeStateMachine ==
  /\ []IncomeTimerMatchesLevel
  /\ [][(autoClickerLevel = 0 /\ autoClickerLevel' > 0)
          => (intervals = {} /\ Cardinality(intervals') = 1)]_vars
  /\ [][(autoClickerLevel > 0 /\ autoClickerLevel' = 0)
          => (intervals # {} /\ intervals' = {})]_vars

\* the level came back to 0 after a timer had been started: autoClickerRef
\* still holds the id of the cancelled timer and no timer is left
C22_Witness ==
  /\ autoClickerLevel = 0
  /\ autoClickerRef # NoTimer
  /\ intervals = {}
  /\ remote.autoClickerLevel = 0
  /\ ~inbox

\* ------------------------------------------------------- C23
\* C23: in every reachable state at most one income timer is active in the
\* session, and every active timer adds the rate of the current level (after
\* a change of the level no timer of the old rate is left to fire).
C23_NoDoubleTicking ==
  \* the income timers of the session: the tap screen's and App's
  /\ Cardinality(intervals) + Cardinality(app.intervals) <= 1
  \* every timer of the tap screen adds the rate of the current local level
  /\ \A iv \in intervals : iv.rate = calculateAutoClickerRate(autoClickerLevel)

\* ------------------------------------------------------- C24
\* C24: a tap does not cancel, restart or delay the income timer: an accepted
\* tap leaves the active timers and the ref that holds the last one as they
\* were, so a timer armed before a run of taps is still the one that fires.
C24_IncomeIndependentOfTaps ==
  [][TapAccepted
       => (intervals' = intervals /\ autoClickerRef' = autoClickerRef)]_vars

\* ------------------------------------------------------- C25
\* C25: every income tick at autoClickerLevel L adds exactly L to the local
\* balance, one increment per tick (so k ticks with no other mutation between
\* them add k*L), leaves the tap counter alone, and hands the new balance with
\* the current totalClicks to scheduleUpdate: the slot holds them and a
\* debounce timer is pending.
C25_IncomeTicks ==
  \* an income tick is applied in this step: scheduleUpdate is called and
  \* the tap counter stays
  [][(mutations' = mutations + 1 /\ totalClicks' = totalClicks)
       => /\ autoClickerLevel > 0
          /\ balance' = balance + autoClickerLevel
          /\ lastNotified' = Snapshot(balance', totalClicks)
          /\ pendingUpdatesRef' = Snapshot(balance', totalClicks)
          /\ UpdateTimers' # {}]_vars

\* two ticks at level 5 from the delivered balance 10, no tap between them:
\* +5 and +5, each handed to scheduleUpdate
C25_Witness ==
  /\ autoClickerLevel = 5
  /\ remote.balance = 10
  /\ totalClicks = 1
  /\ mutations = 2
  /\ balance = 20
  /\ lastNotified = Snapshot(20, 1)
  /\ issued = 0

\* ------------------------------------------------------- C26
\* C26: once the tap screen is torn down no debounce timeout's callback runs
\* and no income tick is applied: no step calls scheduleUpdate, changes the
\* local balance or issues a remote write.
C26_TeardownCancellation ==
  [][LET \* the tap screen has been torn down
         TornDown == currentScreen # "main"
         \* a debounce timeout's callback runs in this step
         DebounceFired == \E t \in UpdateTimers : timeouts' = timeouts \ {t}
     IN TornDown => /\ ~DebounceFired
                    /\ mutations' = mutations
                    /\ balance' = balance
                    /\ issued' = issued]_vars

\* ------------------------------------------------------- C27
\* C27: the snapshots written to the remote store follow the order of the
\* local mutations: a write never carries fewer taps than the write issued
\* before it.
C27_WriteOrder ==
  [][LET \* a write of {balance, totalClicks} is issued in this step, by
         \* the debounce expiry, the retry or the forced flush
         SnapshotWriteIssued ==
           /\ issued' = issued + 1
           /\ lastWrite'.kind \in {"flush", "retry", "force"}
     IN (SnapshotWriteIssued /\ lastWrite # Null)
          => lastWrite'.payload.clicks >= lastWrite.payload.clicks]_vars

\* ------------------------------------------------------- C28
\* C28: with a non-empty user id a tap is taken whatever the balance: the
\* handler is ready for it, and the step that takes it adds the click value of
\* the current levels to the local balance and 1 to totalClicks at once,
\* without issuing or awaiting a write; with an empty user id no step, a tap
\* included, changes the local state, the pending-write slot or the timers.
C28_TapAcceptance ==
  /\ []((userId # "" /\ mutations < MaxMutations) => ENABLED Tap)
  /\ [][TapAccepted
          => /\ userId # ""
             /\ balance' = balance
                             + calculateClickValue(clickPower, multiplierLevel)
             /\ totalClicks' = totalClicks + 1
             /\ pendingUpdatesRef' = Snapshot(balance', totalClicks')
             /\ UNCHANGED <<remote, writeVars>>]_vars
  /\ [][userId = ""
          => UNCHANGED <<localVars, pendingUpdatesRef, timeouts,
                         mutations>>]_vars

\* a tap taken at balance 0 (the delivered profile's) with no upgrade: the
\* balance is 1 and the tap is counted while nothing has been written yet
C28_Witness ==
  /\ userId # ""
  /\ ~inbox
  /\ clickPower = 0
  /\ multiplierLevel = 0
  /\ remote.balance = 0
  /\ balance = 1
  /\ totalClicks = 1
  /\ mutations = 1
  /\ issued = 0

\* ------------------------------------------------------- C29
\* C29: for every upgrade and every level the upgrades screen holds,
\* getUpgradeCost is floor(baseCost * costMultiplier^level) below maxLevel and
\* 0 from maxLevel on; cost('clickPower', 0) = 100 and cost('clickPower', 1)
\* = 150; an unknown upgrade id costs 0 at every level.
C29_UpgradeCost ==
  /\ \A upgradeId \in DOMAIN UPGRADES :
       LET level == getLevelForUpgrade(upgradesScreen, upgradeId)
           upgrade == UPGRADES[upgradeId]
           cost == getUpgradeCost(upgradeId, level)
           \* c is the floor of baseCost * (num/den)^level
           IsFloorOfCost(c) ==
             /\ c * upgrade.den ^ level <= upgrade.baseCost * upgrade.num ^ level
             /\ upgrade.baseCost * upgrade.num ^ level
                  < (c + 1) * upgrade.den ^ level
       IN /\ level < upgrade.maxLevel => IsFloorOfCost(cost)
          /\ level >= upgrade.maxLevel => cost = 0
          /\ getUpgradeCost(upgradeId, upgrade.maxLevel + 1) = 0
          /\ getUpgradeCost("luck", level) = 0
  /\ getUpgradeCost("clickPower", 0) = 100
  /\ getUpgradeCost("clickPower", 1) = 150

\* the handler has priced click power at level 3, reached by two purchases
\* from level 1 at 150 and 225: floor(100 * 1.5^3) = floor(337.5) = 337
C29_Witness ==
  /\ upgradesScreen.clickPower = 3
  /\ upgradesScreen.balance = 2000000000 - 150 - 225
  /\ purchases = 2
  /\ getUpgradeCost("clickPower", upgradesScreen.clickPower) = 337

\* ------------------------------------------------------- C30
\* C30: every accepted tap adds floor((1 + clickPower) * (10 + multiplierLevel)
\* / 10) to the balance, for every click power level and every multiplier
\* level 0..20 the screen holds; click power 2 with multiplier 0 gives 3, and
\* the multiplier's effect at level 0 is 1.
C30_ClickValue ==
  /\ [][TapAccepted
          => /\ multiplierLevel \in 0..20
             /\ balance' = balance
                  + ((1 + clickPower) * (10 + multiplierLevel)) \div 10]_vars
  /\ [](/\ calculateClickValue(2, 0) = 3
        /\ MultiplierEffectTenths(0) = 10
        /\ MultiplierEffectError[1] = 0)

\* ------------------------------------------------------- C31
\* C31: the 'about to terminate' signal with an occupied slot hands the slot's
\* current snapshot to the fire-and-forget transport and issues no store
\* transaction; the 'became hidden' signal with an occupied slot issues a
\* store transaction of the slot's snapshot and hands nothing to the
\* fire-and-forget transport.
C31_TerminateTransport ==
  /\ [][LET \* the 'about to terminate' handler ran with the slot occupied
            TerminateWithPending ==
              /\ pendingUpdatesRef # Null
              /\ userId # ""
              /\ documentHidden' = documentHidden
              /\ UNCHANGED <<localVars, pendingUpdatesRef, updateTimerRef,
                             timeouts, remote, inflight, inbox, mutations>>
              /\ <<beacons, issued>>' # <<beacons, issued>>
        IN TerminateWithPending
             => /\ beacons' = Append(beacons, pendingUpdatesRef)
                /\ UNCHANGED writeVars]_vars
  /\ [][LET \* the 'became hidden' handler ran with the slot occupied
            HiddenWithPending ==
              /\ pendingUpdatesRef # Null
              /\ userId # ""
              /\ ~documentHidden
              /\ documentHidden'
        IN HiddenWithPending
             => /\ issued' = issued + 1
                /\ lastWrite' = [kind |-> "force",
                                 payload |-> pendingUpdatesRef]
                /\ beacons' = beacons]_vars

\* a tap's snapshot went out through the beacon, no transaction having been
\* issued for it
C31_Witness ==
  /\ beacons = << Snapshot(balance, totalClicks) >>
  /\ pendingUpdatesRef = Snapshot(balance, totalClicks)
  /\ totalClicks > 0
  /\ issued = 0

\* ------------------------------------------------------- C34
\* C34: a lifecycle signal that finds the slot empty issues no store write and
\* no beacon, and no lifecycle handler changes the local balance, the local
\* tap count or the debounce timer.
C34_LifecycleFrame ==
  [][LET \* a lifecycle handler ran: the document's visibility changed, or
         \* the beforeunload handler handed something over
         LifecycleSignalHandled ==
           documentHidden' # documentHidden \/ beacons' # beacons
     IN LifecycleSignalHandled
          => /\ pendingUpdatesRef = Null
                  => UNCHANGED <<writeVars, beacons, remote, forced>>
             /\ UNCHANGED <<balance, totalClicks, updateTimerRef, timeouts,
                            pendingUpdatesRef>>]_vars

\* the document went hidden after the only tap had been flushed and the slot
\* cleared: nothing was forced and nothing handed to the beacon
C34_Witness ==
  /\ documentHidden
  /\ pendingUpdatesRef = Null
  /\ userId # ""
  /\ mutations = 1
  /\ issued = 1
  /\ inflight = <<>>
  /\ forced = 0
  /\ beacons = <<>>

\* ------------------------------------------------------- C32
\* the referral code supplied at signup resolves to no profile
ReferrerUnknown ==
  /\ signup.telegramUser # Null
  /\ signup.telegramUser.referralCodeUsed # ""
  /\ \A u \in signup.users :
       u.referralCode # signup.telegramUser.referralCodeUsed

\* C32: when the referral code supplied at signup resolves to no profile, no
\* referral record exists, no earlier profile's balance changes, and the step
\* in which the lookup returns leaves the store alone and settles the session,
\* initialized, under the new user id (not under the temporary id of the
\* error path).
C32_ReferrerNotFound ==
  /\ [](LET \* the profiles the store held before the session, as they are
            EarlierProfiles == { u \in signup.users : u.referralCode # "NEW" }
        IN ReferrerUnknown
             => /\ signup.referrals = {}
                /\ EarlierProfiles \in Stores)
  /\ [][LET \* awardReferralBonus returned for createNewUser's call i
            ReferrerLookupOver(i) ==
              /\ i \in DOMAIN signup.calls
              /\ signup.calls[i].pc = "lookup"
              /\ signup'.calls[i].pc # "lookup"
        IN \A i \in 1..MaxCreations + 1 :
             (ReferrerUnknown /\ ReferrerLookupOver(i))
               => /\ signup'.referrals = signup.referrals
                  /\ signup'.users = signup.users
                  /\ signup'.calls[i].pc = "done"
                  /\ signup'.isInitialized
                  /\ userId' = signup.calls[i].newUserId]_vars

\* the session settled under the new id after a signup with the code no
\* profile carries, the store holding a possible referrer all along
C32_Witness ==
  /\ signup.telegramUser # Null
  /\ signup.telegramUser.referralCodeUsed = "NOPE"
  /\ ReferrerProfile(10) \in signup.users
  /\ signup.calls # <<>>
  /\ signup.calls[1].pc = "done"
  /\ signup.isInitialized
  /\ userId = "n1"
  /\ [id |-> "n1", telegramId |-> TgId, referralCode |-> "NEW",
      balance |-> 50] \in signup.users
  /\ signup.referrals = {}

C39_InitializationCompletes ==
  (/\ signup.telegramId # 0
   /\ signup.telegramUser # Null
   /\ signup.userData # Undefined)
    ~> (signup.isInitialized /\ userId # "")

\* the creation failed and the session runs under the temporary id
C39_Witness ==
  /\ signup.telegramId # 0
  /\ signup.telegramUser # Null
  /\ signup.userData # Undefined
  /\ signup.isInitialized
  /\ userId = TempId
  /\ signup.created = 1
  /\ signup.calls[1].pc = "done"

\* ------------------------------------------------------- C35
RECURSIVE SkinsCost(_)
\* what the skins of owned cost together
SkinsCost(owned) ==
  IF owned \cap DOMAIN SKINS = {} THEN 0
  ELSE LET skin == CHOOSE x \in owned \cap DOMAIN SKINS : TRUE
       IN SKINS[skin] + SkinsCost(owned \ {skin})

RECURSIVE LevelsCost(_, _)
\* what the levels 1..level of an upgrade cost together
LevelsCost(upgradeId, level) ==
  IF level = 0 THEN 0
  ELSE getUpgradeCost(upgradeId, level - 1) + LevelsCost(upgradeId, level - 1)

\* C35: no write of the pending-write slot (debounce-expiry flush, retry or
\* forced flush) sets the store's balance to a value that leaves out the debit
\* of a purchase that has succeeded: after it the balance is at most the
\* balance the session started from, plus one star for each tap (click power
\* 0, no multiplier), minus the committed debits.
C35_SpendDurable ==
  [][LET \* the store committed a write of the pending-write slot: a
         \* debounce-expiry flush, a retry or a forced flush
         SnapshotWriteCommitted ==
           /\ inflight # <<>>
           /\ Head(inflight).kind \in {"flush", "retry", "force"}
           /\ inflight' = Tail(inflight)
           /\ failures' = failures
         \* the debits of the purchases the store has committed after the
         \* step: the skins and the levels of the profile, which started
         \* without either
         DebitsCommitted ==
           SkinsCost(OwnedOrDefault(remote'.ownedSkins))
             + LevelsCost("clickPower", Num(remote'.clickPower))
             + LevelsCost("multiplier", Num(remote'.multiplierLevel))
             + LevelsCost("autoClicker", Num(remote'.autoClickerLevel))
     IN SnapshotWriteCommitted
          => Num(remote'.balance) + DebitsCommitted
               <= SpendStart + mutations']_vars

\* ------------------------------------------------------- C36
\* C36: every purchase of a skin the profile does not own yet, when it
\* succeeds, adds that skin to the profile's owned skins and takes its cost
\* off the profile's balance, however the transactions and the inbound
\* snapshots interleave; so after two purchases of distinct skins the profile
\* owns both and its balance is the starting balance minus both costs.
C36_PurchaseAccounting ==
  [][LET \* the transaction of a purchase of skin succeeded
         SkinPurchaseCommitted(skin) ==
           /\ inflight # <<>>
           /\ Head(inflight).kind \in {"skin", "inline"}
           /\ Head(inflight).payload.currentSkin = skin
           /\ inflight' = Tail(inflight)
           /\ failures' = failures
     IN \A skin \in DOMAIN SKINS :
          (SkinPurchaseCommitted(skin) /\ skin \notin remote.ownedSkins)
            => /\ remote'.ownedSkins = remote.ownedSkins \cup {skin}
               /\ remote'.balance = remote.balance - SKINS[skin]]_vars

\* ------------------------------------------------------- C37
\* C37: when the retry timer fires with the slot occupied, one transaction is
\* issued and it carries the slot's contents of that moment; with the slot
\* empty nothing is issued.  The slot and the local state are left alone.
C37_RetryPayload ==
  [][LET \* the retry timeout's callback ran
         RetryFired == \E t \in timeouts : t.kind = "retry" /\ t \notin timeouts'
     IN RetryFired
          => /\ pendingUpdatesRef # Null
                  => /\ issued' = issued + 1
                     /\ lastWrite' = [kind |-> "retry",
                                      payload |-> pendingUpdatesRef]
                     /\ inflight' = Append(inflight, lastWrite')
             /\ pendingUpdatesRef = Null => UNCHANGED writeVars
             /\ UNCHANGED <<pendingUpdatesRef, balance, totalClicks>>]_vars

\* the retry carried a tap notified after the failed flush was issued: two
\* transactions so far, the flush that failed and the retry, the second tap's
\* debounce timer still armed, and the retry's payload is the second tap's
\* snapshot
C37_Witness ==
  /\ lastWrite # Null
  /\ lastWrite.kind = "retry"
  /\ issued = 2
  /\ flushFailures = 1
  /\ mutations = 2
  /\ lastWrite.payload = Snapshot(balance, totalClicks)
  /\ lastWrite.payload = lastNotified
  /\ \E t \in timeouts : t.kind = "update" /\ t.id = updateTimerRef

\* ------------------------------------------------------- C38
\* C38: an income tick changes, of the local fields, the balance only: the tap
\* counter, the three upgrade levels and the skins stay, and the snapshot it
\* hands to scheduleUpdate pairs the new balance with the tap counter of the
\* moment of the tick.
C38_IncomeTickFrame ==
  [][IncomeTick
       => /\ balance' # balance
          /\ UNCHANGED <<totalClicks, clickPower, multiplierLevel,
                         autoClickerLevel, currentSkin, ownedSkins>>
          /\ lastNotified' = Snapshot(balance', totalClicks)
          /\ pendingUpdatesRef' = Snapshot(balance', totalClicks)]_vars

\* a tick after a tap that was persisted: the store holds the tap's pair
\* (11, 2), the tick at level 5 made the balance 16 and notified (16, 2), the
\* tap count the tap left
C38_Witness ==
  /\ autoClickerLevel = 5
  /\ mutations = 2
  /\ remote.balance = 11
  /\ remote.totalClicks = 2
  /\ balance = 16
  /\ totalClicks = 2
  /\ lastNotified = Snapshot(16, 2)
  /\ pendingUpdatesRef = lastNotified

====
